---------------------------- MODULE Spec2Model ----------------------------
(***************************************************************************)
(* A model of the Advanced Escrow client of uvd_x402_sdk                   *)
(* (src/src/uvd_x402_sdk/advanced_escrow.py): the chain registry, the      *)
(* payment commitment (nonce) builder, the ERC-3009 authorization signer,  *)
(* the escrow operations and the transaction dispatcher; and of the        *)
(* release / refund predicates of src/src/uvd_x402_sdk/escrow.py.          *)
(*                                                                         *)
(* Python values are modelled as follows.                                  *)
(*   - Optional[T]: None_ or Some(v).                                      *)
(*   - a str that is parsed character by character (the salt): a sequence  *)
(*     of one-character strings.                                           *)
(*   - an address string: [a |-> the 20 bytes, cs |-> whether the string   *)
(*     is written in its EIP-55 checksum form].  Two strings with the same *)
(*     a and different cs are different strings for the same address.      *)
(*   - a raised exception: Raise(kind, message).                           *)
(*   - keccak256 and ABI encoding: injective constructors (collision-free).*)
(***************************************************************************)
EXTENDS Integers, Sequences, FiniteSets, TLC

VARIABLES
    self,       \* the AdvancedEscrowClient the caller holds
    info,       \* the PaymentInfo the caller holds
    last,       \* the record of the last completed public call
    ncalls,     \* number of public calls made so far
    nposts,     \* facilitator POSTs attempted so far, all clients
    ntxs,       \* raw transactions handed to send_raw_transaction so far
    trace,      \* the two latest invocations of the pure helpers
                \* (_compute_nonce, _build_tuple, the escrow.py predicates),
                \* oldest first, with what each returned
    payment,    \* the EscrowPayment record the caller holds (escrow.py)
    clock,      \* the instant the system clock shows
    threads,    \* where each concurrent _send_tx invocation stands, and
                \* its local variables
    chain       \* the payer account as the RPC node sees it

vars == <<self, info, last, ncalls, nposts, ntxs, trace, payment, clock, threads, chain>>

\* The state of the parts a specification does not exercise.
Unused == [some |-> FALSE]

---------------------------------------------------------------------------
(* Python plumbing *)

None_ == [some |-> FALSE]
Some(v) == [some |-> TRUE, v |-> v]
IsNone(x) == ~x.some

Raise(kind, msg) == [exc |-> kind, msg |-> msg]
Ok(v) == [val |-> v]
IsExc(x) == "exc" \in DOMAIN x

\* bool(x) of an Optional[int]: None and 0 are falsy.
TruthyInt(x) == x.some /\ x.v # 0

\* bool(x) of an Optional[bool] as dict.get returns it.
TruthyBool(x) == x.some /\ x.v

---------------------------------------------------------------------------
(* Addresses *)

Addr(a) == [a |-> a, cs |-> TRUE]
Lower(a) == [a |-> a, cs |-> FALSE]

ZERO_ADDRESS == Addr("0x0000000000000000000000000000000000000000")

\* The empty string, where an address is expected.
EmptyStr == [a |-> "", cs |-> FALSE]

\* Web3.to_checksum_address: the canonical form of the same 20 bytes.
to_checksum_address(x) == [a |-> x.a, cs |-> TRUE]

---------------------------------------------------------------------------
(* Constants and the multi-chain registry *)

\* Contract-enforced deposit limit in USDC atomic units ($100).
DEPOSIT_LIMIT_USDC == 100000000

PAYMENT_INFO_TYPEHASH == "ae68ac7ce30c86ece8196b61a7c486d8f0061f575037fbd34e7fe4e2820c6591"

Registry(escrow, factory, collector, feecfg, refund, usdc) ==
    [escrow |-> Addr(escrow), operator_factory |-> Addr(factory),
     token_collector |-> Addr(collector), protocol_fee_config |-> Addr(feecfg),
     refund_request |-> Addr(refund), usdc |-> Addr(usdc)]

ESCROW_CONTRACTS ==
    (84532 :> Registry("0x29025c0E", "0x97d53e63", "0x5cA78900", "0x8F96C493", "0x1C2Ab244", "0x036CbD53"))
 @@ (11155111 :> Registry("0x320a3c35", "0x32d6AC59", "0x230fd3A1", "0xD979dBfB", "0xc1256Bb3", "0x1c7D4B19"))
 @@ (8453 :> Registry("0xb9488351", "0x3D0837fF", "0x48ADf6E3", "0x59314674", "0x35fb2EFE", "0x833589fC"))
 @@ (1 :> Registry("0xc1256Bb3", "0xed02d3E5", "0xE78648e7", "0xb33D6502", "0xc9BbA6A2", "0xA0b86991"))
 @@ (137 :> Registry("0x32d6AC59", "0xb33D6502", "0xc1256Bb3", "0xE78648e7", "0xed02d3E5", "0x3c499c54"))
 @@ (42161 :> Registry("0x320a3c35", "0x32d6AC59", "0x230fd3A1", "0xD979dBfB", "0xc1256Bb3", "0xaf88d065"))
 @@ (42220 :> Registry("0x320a3c35", "0x32d6AC59", "0x230fd3A1", "0xD979dBfB", "0xc1256Bb3", "0xcebA9300"))
 @@ (143 :> Registry("0x320a3c35", "0x32d6AC59", "0x230fd3A1", "0xD979dBfB", "0xc1256Bb3", "0x754704Bc"))
 @@ (43114 :> Registry("0x320a3c35", "0x32d6AC59", "0x230fd3A1", "0xD979dBfB", "0xc1256Bb3", "0xB97EF9Ef"))

ESCROW_CHAIN_NAMES ==
    (84532 :> "Base Sepolia") @@ (11155111 :> "Ethereum Sepolia")
 @@ (8453 :> "Base Mainnet") @@ (1 :> "Ethereum Mainnet") @@ (137 :> "Polygon")
 @@ (42161 :> "Arbitrum") @@ (42220 :> "Celo") @@ (143 :> "Monad")
 @@ (43114 :> "Avalanche")

BASE_MAINNET_CONTRACTS ==
    [operator |-> Addr("0xa06958D9"), escrow |-> Addr("0xb9488351"),
     operator_factory |-> Addr("0x3D0837fF"), token_collector |-> Addr("0x48ADf6E3"),
     protocol_fee_config |-> Addr("0x59314674"), refund_request |-> Addr("0x35fb2EFE"),
     usdc |-> Addr("0x833589fC")]

---------------------------------------------------------------------------
(* Registry accessors *)

\* sorted(): the members of a finite set of integers in ascending order.
RECURSIVE sorted(_)
sorted(S) ==
    IF S = {} THEN <<>>
    ELSE LET m == CHOOSE x \in S : \A y \in S : x <= y
         IN  <<m>> \o sorted(S \ {m})

\* ESCROW_CHAIN_NAMES.get(cid, default)
ChainNameOr(cid, default) ==
    IF cid \in DOMAIN ESCROW_CHAIN_NAMES THEN ESCROW_CHAIN_NAMES[cid] ELSE default

\* The items "<cid> (<name>)" that the error message of get_escrow_contracts
\* joins with ", ", in the order they are joined.
SupportedItems ==
    LET cids == sorted(DOMAIN ESCROW_CONTRACTS)
    IN  [i \in DOMAIN cids |-> [cid |-> cids[i], name |-> ChainNameOr(cids[i], "unknown")]]

\* get_escrow_contracts that answers an unknown chain with the Base entry.
get_escrow_contracts_Fallback(chain_id) ==
    IF chain_id \notin DOMAIN ESCROW_CONTRACTS
    THEN Ok(ESCROW_CONTRACTS[8453])
    ELSE Ok(ESCROW_CONTRACTS[chain_id])

get_escrow_contracts(chain_id) ==
    IF chain_id \notin DOMAIN ESCROW_CONTRACTS
    THEN Raise("ValueError",
               [text |-> "No escrow contracts for chain", chain_id |-> chain_id,
                supported |-> SupportedItems])
    ELSE Ok(ESCROW_CONTRACTS[chain_id])

get_supported_escrow_chains == sorted(DOMAIN ESCROW_CONTRACTS)

is_escrow_supported(chain_id) == chain_id \in DOMAIN ESCROW_CONTRACTS

---------------------------------------------------------------------------
(* OPERATOR_ABI *)

\* One ABI input: its name, its type and, for a tuple, its components.
Input(name, type, components) == [name |-> name, type |-> type, components |-> components]
Leaf(name, type) == Input(name, type, <<>>)

\* The inputs of each function of the PaymentOperator ABI.
OPERATOR_ABI ==
    ("release" :>
        <<Input("paymentInfo", "tuple",
            <<Leaf("operator", "address"),
              Leaf("payer", "address"),
              Leaf("receiver", "address"),
              Leaf("token", "address"),
              Leaf("maxAmount", "uint120"),
              Leaf("preApprovalExpiry", "uint48"),
              Leaf("authorizationExpiry", "uint48"),
              Leaf("refundExpiry", "uint48"),
              Leaf("minFeeBps", "uint16"),
              Leaf("maxFeeBps", "uint16"),
              Leaf("feeReceiver", "address"),
              Leaf("salt", "uint256")>>),
          Leaf("amount", "uint256")>>)
 @@ ("refundInEscrow" :>
        <<Input("paymentInfo", "tuple",
            <<Leaf("operator", "address"),
              Leaf("payer", "address"),
              Leaf("receiver", "address"),
              Leaf("token", "address"),
              Leaf("maxAmount", "uint120"),
              Leaf("preApprovalExpiry", "uint48"),
              Leaf("authorizationExpiry", "uint48"),
              Leaf("refundExpiry", "uint48"),
              Leaf("minFeeBps", "uint16"),
              Leaf("maxFeeBps", "uint16"),
              Leaf("feeReceiver", "address"),
              Leaf("salt", "uint256")>>),
          Leaf("amount", "uint120")>>)
 @@ ("charge" :>
        <<Input("paymentInfo", "tuple",
            <<Leaf("operator", "address"),
              Leaf("payer", "address"),
              Leaf("receiver", "address"),
              Leaf("token", "address"),
              Leaf("maxAmount", "uint120"),
              Leaf("preApprovalExpiry", "uint48"),
              Leaf("authorizationExpiry", "uint48"),
              Leaf("refundExpiry", "uint48"),
              Leaf("minFeeBps", "uint16"),
              Leaf("maxFeeBps", "uint16"),
              Leaf("feeReceiver", "address"),
              Leaf("salt", "uint256")>>),
          Leaf("amount", "uint256"),
          Leaf("tokenCollector", "address"),
          Leaf("collectorData", "bytes")>>)
 @@ ("refundPostEscrow" :>
        <<Input("paymentInfo", "tuple",
            <<Leaf("operator", "address"),
              Leaf("payer", "address"),
              Leaf("receiver", "address"),
              Leaf("token", "address"),
              Leaf("maxAmount", "uint120"),
              Leaf("preApprovalExpiry", "uint48"),
              Leaf("authorizationExpiry", "uint48"),
              Leaf("refundExpiry", "uint48"),
              Leaf("minFeeBps", "uint16"),
              Leaf("maxFeeBps", "uint16"),
              Leaf("feeReceiver", "address"),
              Leaf("salt", "uint256")>>),
          Leaf("amount", "uint256"),
          Leaf("tokenCollector", "address"),
          Leaf("collectorData", "bytes")>>)

---------------------------------------------------------------------------
(* AdvancedEscrowClient.__init__ *)

\* Account.from_key(private_key).address
AccountAddress(private_key) == Addr(private_key.account)

\* str.rstrip("/") of a URL written as [u |-> text without trailing slashes,
\* slashes |-> number of trailing slashes].
rstrip_slash(url) == [u |-> url.u, slashes |-> 0]

\* Contract resolution that gives every registry chain the legacy operator
\* when none is passed.
ResolveContracts_LegacyEverywhere(chain_id, contracts, operator_address) ==
    IF contracts.some THEN Ok(contracts.v)
    ELSE IF chain_id \in DOMAIN ESCROW_CONTRACTS THEN
        LET registry == ESCROW_CONTRACTS[chain_id]
            op == IF IsNone(operator_address)
                  THEN BASE_MAINNET_CONTRACTS.operator
                  ELSE operator_address.v
        IN  Ok([operator |-> op,
                escrow |-> registry.escrow,
                operator_factory |-> registry.operator_factory,
                token_collector |-> registry.token_collector,
                protocol_fee_config |-> registry.protocol_fee_config,
                refund_request |-> registry.refund_request,
                usdc |-> registry.usdc])
    ELSE Ok(BASE_MAINNET_CONTRACTS)

\* Contract resolution in which a passed operator_address replaces the
\* operator of an explicit contract set.
ResolveContracts_OperatorOverrides(chain_id, contracts, operator_address) ==
    IF contracts.some
    THEN Ok(IF operator_address.some
            THEN [contracts.v EXCEPT !.operator = operator_address.v]
            ELSE contracts.v)
    ELSE IF chain_id \in DOMAIN ESCROW_CONTRACTS THEN
        LET registry == ESCROW_CONTRACTS[chain_id]
            op == IF IsNone(operator_address) /\ chain_id = 8453
                  THEN Some(BASE_MAINNET_CONTRACTS.operator)
                  ELSE operator_address
        IN  IF IsNone(op)
            THEN Raise("ValueError", "operator_address is required")
            ELSE Ok([operator |-> op.v,
                     escrow |-> registry.escrow,
                     operator_factory |-> registry.operator_factory,
                     token_collector |-> registry.token_collector,
                     protocol_fee_config |-> registry.protocol_fee_config,
                     refund_request |-> registry.refund_request,
                     usdc |-> registry.usdc])
    ELSE Ok(BASE_MAINNET_CONTRACTS)

\* The contract set __init__ resolves, or the ValueError it raises.
ResolveContracts(chain_id, contracts, operator_address) ==
    IF contracts.some THEN Ok(contracts.v)
    ELSE IF chain_id \in DOMAIN ESCROW_CONTRACTS THEN
        LET registry == ESCROW_CONTRACTS[chain_id]
            op == IF IsNone(operator_address) /\ chain_id = 8453
                  THEN Some(BASE_MAINNET_CONTRACTS.operator)
                  ELSE operator_address
        IN  IF IsNone(op)
            THEN Raise("ValueError", "operator_address is required")
            ELSE Ok([operator |-> op.v,
                     escrow |-> registry.escrow,
                     operator_factory |-> registry.operator_factory,
                     token_collector |-> registry.token_collector,
                     protocol_fee_config |-> registry.protocol_fee_config,
                     refund_request |-> registry.refund_request,
                     usdc |-> registry.usdc])
    ELSE Ok(BASE_MAINNET_CONTRACTS)

\* The constructed client, or the exception the constructor raises.
AdvancedEscrowClient(private_key, facilitator_url, rpc_url, chain_id, contracts, operator_address, gas_limit) ==
    LET resolved == ResolveContracts(chain_id, contracts, operator_address)
    IN  IF IsExc(resolved) THEN resolved
        ELSE [private_key |-> private_key,
              facilitator_url |-> rstrip_slash(facilitator_url),
              chain_id |-> chain_id,
              gas_limit |-> gas_limit,
              contracts |-> resolved.val,
              rpc_url |-> rpc_url,
              payer |-> AccountAddress(private_key),
              operator_contract |-> to_checksum_address(resolved.val.operator)]

---------------------------------------------------------------------------
(* PaymentInfo *)

\* A PaymentInfo whose __post_init__ sets fee_receiver to the operator
\* whatever was passed.
PaymentInfo_FeeToOperator(operator, receiver, token, max_amount, pre_approval_expiry, authorization_expiry, refund_expiry, min_fee_bps, max_fee_bps, fee_receiver, salt) ==
    [operator |-> operator, receiver |-> receiver, token |-> token,
     max_amount |-> max_amount,
     pre_approval_expiry |-> pre_approval_expiry,
     authorization_expiry |-> authorization_expiry,
     refund_expiry |-> refund_expiry,
     min_fee_bps |-> min_fee_bps, max_fee_bps |-> max_fee_bps,
     fee_receiver |-> operator,
     salt |-> salt]

\* The dataclass constructor with __post_init__: an empty fee_receiver
\* becomes the operator.
PaymentInfo(operator, receiver, token, max_amount, pre_approval_expiry, authorization_expiry, refund_expiry, min_fee_bps, max_fee_bps, fee_receiver, salt) ==
    [operator |-> operator, receiver |-> receiver, token |-> token,
     max_amount |-> max_amount,
     pre_approval_expiry |-> pre_approval_expiry,
     authorization_expiry |-> authorization_expiry,
     refund_expiry |-> refund_expiry,
     min_fee_bps |-> min_fee_bps, max_fee_bps |-> max_fee_bps,
     fee_receiver |-> IF fee_receiver = EmptyStr THEN operator ELSE fee_receiver,
     salt |-> salt]

\* A salt is a native int or a str.
IntSalt(n) == [t |-> "int", n |-> n]
StrSalt(s) == [t |-> "str", s |-> s]

---------------------------------------------------------------------------
(* Tier timings and build_payment_info *)

TaskTier == {"micro", "standard", "premium", "enterprise"}

\* TIER_TIMINGS with the STANDARD acceptance window of MICRO.
TIER_TIMINGS_StandardPre ==
    ("micro" :> [pre |-> 3600, auth |-> 7200, refund |-> 86400])
 @@ ("standard" :> [pre |-> 3600, auth |-> 86400, refund |-> 604800])
 @@ ("premium" :> [pre |-> 14400, auth |-> 172800, refund |-> 1209600])
 @@ ("enterprise" :> [pre |-> 86400, auth |-> 604800, refund |-> 2592000])

TIER_TIMINGS ==
    ("micro" :> [pre |-> 3600, auth |-> 7200, refund |-> 86400])
 @@ ("standard" :> [pre |-> 7200, auth |-> 86400, refund |-> 604800])
 @@ ("premium" :> [pre |-> 14400, auth |-> 172800, refund |-> 1209600])
 @@ ("enterprise" :> [pre |-> 86400, auth |-> 604800, refund |-> 2592000])

\* bool(salt) of an Optional[str]: None and "" are falsy.
TruthyStr(x) == x.some /\ x.v # <<>>

\* salt or ("0x" + secrets.token_hex(32)), with the drawn token text.
SaltOrRandom(salt, token_hex) ==
    IF TruthyStr(salt) THEN StrSalt(salt.v) ELSE StrSalt(<<"0", "x">> \o token_hex)

\* build_payment_info with the authorization and refund windows exchanged.
build_payment_info_Swapped(client, receiver, amount, tier, salt, min_fee_bps, max_fee_bps, now, token_hex) ==
    LET t == TIER_TIMINGS[tier]
    IN  PaymentInfo(client.contracts.operator, receiver, client.contracts.usdc,
                    amount, now + t.pre, now + t.refund, now + t.auth,
                    min_fee_bps, max_fee_bps, client.contracts.operator,
                    SaltOrRandom(salt, token_hex))

\* build_payment_info, with the clock reading `now` and the random text
\* `token_hex` as inputs.
build_payment_info(client, receiver, amount, tier, salt, min_fee_bps, max_fee_bps, now, token_hex) ==
    LET t == TIER_TIMINGS[tier]
    IN  PaymentInfo(client.contracts.operator, receiver, client.contracts.usdc,
                    amount, now + t.pre, now + t.auth, now + t.refund,
                    min_fee_bps, max_fee_bps, client.contracts.operator,
                    SaltOrRandom(salt, token_hex))

---------------------------------------------------------------------------
(* int(text) and int(text, 16) *)

DecChars == {"0", "1", "2", "3", "4", "5", "6", "7", "8", "9"}
HexChars == DecChars \cup {"a", "b", "c", "d", "e", "f", "A", "B", "C", "D", "E", "F"}

DigitValue(c) ==
    CASE c = "0" -> 0 [] c = "1" -> 1 [] c = "2" -> 2 [] c = "3" -> 3
      [] c = "4" -> 4 [] c = "5" -> 5 [] c = "6" -> 6 [] c = "7" -> 7
      [] c = "8" -> 8 [] c = "9" -> 9
      [] c \in {"a", "A"} -> 10 [] c \in {"b", "B"} -> 11
      [] c \in {"c", "C"} -> 12 [] c \in {"d", "D"} -> 13
      [] c \in {"e", "E"} -> 14 [] c \in {"f", "F"} -> 15

RECURSIVE DigitsValue(_, _)
DigitsValue(s, base) ==
    IF s = <<>> THEN 0
    ELSE DigitsValue(SubSeq(s, 1, Len(s) - 1), base) * base + DigitValue(s[Len(s)])

\* str.startswith("0x")
startswith_0x(s) == Len(s) >= 2 /\ s[1] = "0" /\ s[2] = "x"

\* int(s): a decimal literal, ValueError otherwise.
int10(s) ==
    IF s # <<>> /\ \A i \in 1..Len(s) : s[i] \in DecChars
    THEN Ok(DigitsValue(s, 10))
    ELSE Raise("ValueError", "invalid literal for int() with base 10")

\* int(s, 16): hex digits with an optional 0x prefix, ValueError otherwise.
int16(s) ==
    LET digits == IF startswith_0x(s) THEN SubSeq(s, 3, Len(s)) ELSE s
    IN  IF digits # <<>> /\ \A i \in 1..Len(digits) : digits[i] \in HexChars
        THEN Ok(DigitsValue(digits, 16))
        ELSE Raise("ValueError", "invalid literal for int() with base 16")

---------------------------------------------------------------------------
(* Payment commitment builder *)

\* eth_abi.encode and Web3.keccak, collision-free.
encode(types, values) == [types |-> types, values |-> values]
keccak(bytes) == [keccak |-> bytes]

\* HexBytes.hex() with the 0x prefix ensured, and bytes.fromhex of it with
\* the prefix removed.
hex0x(bytes) == <<"0x", bytes>>
bytes_fromhex(text) == text[2]

\* The tuple type string with a 128-bit amount.
PAYMENT_INFO_TUPLE_TYPE_Uint128 ==
    <<"address", "address", "address", "address", "uint128", "uint48",
      "uint48", "uint48", "uint16", "uint16", "address", "uint256">>

PAYMENT_INFO_TUPLE_TYPE ==
    <<"address", "address", "address", "address", "uint120", "uint48",
      "uint48", "uint48", "uint16", "uint16", "address", "uint256">>

\* The salt as _compute_nonce normalizes it.
NonceSalt(salt) ==
    IF salt.t = "str"
    THEN (IF startswith_0x(salt.s) THEN int16(salt.s) ELSE int10(salt.s))
    ELSE Ok(salt.n)

\* NoncePayer with the client's own address hashed in place of the sentinel.
NoncePayer_Real(client) == to_checksum_address(client.payer)

\* The payer position of the tuple _compute_nonce hashes.
NoncePayer(client) == ZERO_ADDRESS

\* NonceTuple with min_fee_bps written in both fee positions.
NonceTuple_FeeTwice(client, payment_info) ==
    LET salt == NonceSalt(payment_info.salt)
    IN  IF IsExc(salt) THEN salt
        ELSE Ok(<<to_checksum_address(payment_info.operator),
                  NoncePayer(client),
                  to_checksum_address(payment_info.receiver),
                  to_checksum_address(payment_info.token),
                  payment_info.max_amount,
                  payment_info.pre_approval_expiry,
                  payment_info.authorization_expiry,
                  payment_info.refund_expiry,
                  payment_info.min_fee_bps,
                  payment_info.min_fee_bps,
                  to_checksum_address(payment_info.fee_receiver),
                  salt.val>>)

\* pi_tuple of _compute_nonce, or the exception raised while building it.
NonceTuple(client, payment_info) ==
    LET salt == NonceSalt(payment_info.salt)
    IN  IF IsExc(salt) THEN salt
        ELSE Ok(<<to_checksum_address(payment_info.operator),
                  NoncePayer(client),
                  to_checksum_address(payment_info.receiver),
                  to_checksum_address(payment_info.token),
                  payment_info.max_amount,
                  payment_info.pre_approval_expiry,
                  payment_info.authorization_expiry,
                  payment_info.refund_expiry,
                  payment_info.min_fee_bps,
                  payment_info.max_fee_bps,
                  to_checksum_address(payment_info.fee_receiver),
                  salt.val>>)

\* NonceDomain bound to the operator contract in place of the escrow.
NonceDomain_Operator(client, pi_hash) ==
    <<client.chain_id, to_checksum_address(client.contracts.operator), pi_hash>>

\* The values of the second hash stage.
NonceDomain(client, pi_hash) ==
    <<client.chain_id, to_checksum_address(client.contracts.escrow), pi_hash>>

_compute_nonce(client, payment_info) ==
    LET pi_tuple == NonceTuple(client, payment_info)
    IN  IF IsExc(pi_tuple) THEN pi_tuple
        ELSE LET encoded_with_typehash ==
                     encode(<<"bytes32", PAYMENT_INFO_TUPLE_TYPE>>,
                            <<PAYMENT_INFO_TYPEHASH, pi_tuple.val>>)
                 pi_hash == keccak(encoded_with_typehash)
                 final_encoded ==
                     encode(<<"uint256", "address", "bytes32">>,
                            NonceDomain(client, pi_hash))
             IN  Ok(hex0x(keccak(final_encoded)))

\* The salt as _build_tuple normalizes it.
TupleSalt(salt) ==
    IF salt.t = "int" THEN Ok(salt.n)
    ELSE IF startswith_0x(salt.s) THEN int16(salt.s)
    ELSE IF \A i \in 1..Len(salt.s) : salt.s[i] \in HexChars THEN int16(salt.s)
    ELSE int10(salt.s)

_build_tuple(client, pi) ==
    LET salt_int == TupleSalt(pi.salt)
    IN  IF IsExc(salt_int) THEN salt_int
        ELSE Ok(<<to_checksum_address(pi.operator),
                  to_checksum_address(client.payer),
                  to_checksum_address(pi.receiver),
                  to_checksum_address(pi.token),
                  pi.max_amount,
                  pi.pre_approval_expiry,
                  pi.authorization_expiry,
                  pi.refund_expiry,
                  pi.min_fee_bps,
                  pi.max_fee_bps,
                  to_checksum_address(pi.fee_receiver),
                  salt_int.val>>)

---------------------------------------------------------------------------
(* str(n) of a non-negative int *)

DecDigits == <<"0", "1", "2", "3", "4", "5", "6", "7", "8", "9">>

RECURSIVE str_int(_)
str_int(n) ==
    IF n < 10 THEN <<DecDigits[n + 1]>>
    ELSE str_int(n \div 10) \o <<DecDigits[(n % 10) + 1]>>

\* int(text) of a str that str() produced.
int_str(s) == int10(s).val

---------------------------------------------------------------------------
(* USDC EIP-712 domain names per network (networks/evm.py) *)

\* NetworkConfig.name of the EVM network registered with this chain id.
EvmNetworkName(chain_id) ==
    CASE chain_id = 8453 -> "base"
      [] chain_id = 1 -> "ethereum"
      [] chain_id = 137 -> "polygon"
      [] chain_id = 42161 -> "arbitrum"
      [] chain_id = 10 -> "optimism"
      [] chain_id = 43114 -> "avalanche"
      [] chain_id = 42220 -> "celo"
      [] chain_id = 999 -> "hyperevm"
      [] chain_id = 130 -> "unichain"
      [] chain_id = 143 -> "monad"
      [] chain_id = 56 -> "bsc"
      [] OTHER -> "unregistered"

\* str.lower() of a network name.
lower(name) ==
    CASE name = "Celo" -> "celo"
      [] name = "Monad" -> "monad"
      [] name = "Base" -> "base"
      [] OTHER -> name

get_usdc_domain_name(network_name) ==
    IF lower(network_name) \in {"celo", "hyperevm", "unichain", "monad"}
    THEN "USDC"
    ELSE "USD Coin"

---------------------------------------------------------------------------
(* Authorization signer *)

\* The EIP-712 domain _sign_erc3009 signs under.
SigningDomain(client) ==
    [name |-> "USD Coin",
     version |-> "2",
     chainId |-> client.chain_id,
     verifyingContract |-> to_checksum_address(client.contracts.usdc)]

\* A typed message whose window opens at validBefore.
SigningMessage_OpensAtExpiry(auth) ==
    [from |-> to_checksum_address(auth.from),
     to |-> to_checksum_address(auth.to),
     value |-> int_str(auth.value),
     validAfter |-> int_str(auth.validBefore),
     validBefore |-> int_str(auth.validBefore),
     nonce |-> bytes_fromhex(auth.nonce)]

\* The typed message _sign_erc3009 signs, the nonce as bytes.
SigningMessage(auth) ==
    [from |-> to_checksum_address(auth.from),
     to |-> to_checksum_address(auth.to),
     value |-> int_str(auth.value),
     validAfter |-> int_str(auth.validAfter),
     validBefore |-> int_str(auth.validBefore),
     nonce |-> bytes_fromhex(auth.nonce)]

\* The signature as a 0x hex string: the signature bytes are determined by
\* the key, the domain and the message.
_sign_erc3009(client, auth) ==
    hex0x([signer |-> client.private_key,
           domain |-> SigningDomain(client),
           message |-> SigningMessage(auth)])

---------------------------------------------------------------------------
(* Result records *)

AuthorizationResult(success, transaction_hash, payment_info, salt, error) ==
    [success |-> success, transaction_hash |-> transaction_hash,
     payment_info |-> payment_info, salt |-> salt, error |-> error]

TransactionResult(success, transaction_hash, gas_used, error) ==
    [success |-> success, transaction_hash |-> transaction_hash,
     gas_used |-> gas_used, error |-> error]

\* What one public call did: the exception it raised or the result it
\* returned, the authorization it signed, the request it made (a POST body
\* or a contract call), whether it reached the submission, and how the
\* facilitator or the chain answered (None_ when it was not reached).
Returned(result, signed, request, submitted, outcome) ==
    [raised |-> None_, result |-> Some(result), signed |-> signed,
     request |-> request, submitted |-> submitted, outcome |-> outcome]

Raised(exception, signed, request, submitted, outcome) ==
    [raised |-> Some(exception), result |-> None_, signed |-> signed,
     request |-> request, submitted |-> submitted, outcome |-> outcome]

---------------------------------------------------------------------------
(* Transaction dispatcher *)

\* The stages of _send_tx in the order they run.
SendTxStages ==
    <<"gas_price", "get_transaction_count", "build_transaction",
      "sign_transaction", "send_raw_transaction", "wait_for_transaction_receipt">>

\* Whether a failure at this stage happens after the raw transaction was
\* handed to send_raw_transaction.
Broadcasts(stage) == stage \in {"send_raw_transaction", "wait_for_transaction_receipt"}

\* SendTxResult that leaves the gas used out of a reverted result.
SendTxResult_NoGas(outcome) ==
    IF outcome.kind = "error"
    THEN TransactionResult(FALSE, None_, None_, Some(outcome.msg))
    ELSE IF outcome.status # 1
    THEN TransactionResult(FALSE, Some(outcome.tx_hash), None_,
                           Some("Transaction reverted"))
    ELSE TransactionResult(TRUE, Some(outcome.tx_hash), Some(outcome.gasUsed), None_)

\* SendTxResult that reports a fixed text in place of the exception's message.
SendTxResult_FixedText(outcome) ==
    IF outcome.kind = "error"
    THEN TransactionResult(FALSE, None_, None_, Some("Transaction failed"))
    ELSE IF outcome.status # 1
    THEN TransactionResult(FALSE, Some(outcome.tx_hash), Some(outcome.gasUsed),
                           Some("Transaction reverted"))
    ELSE TransactionResult(TRUE, Some(outcome.tx_hash), Some(outcome.gasUsed), None_)

\* The result of _send_tx given how the chain answers: an exception at one
\* stage, or a receipt.
SendTxResult(outcome) ==
    IF outcome.kind = "error"
    THEN TransactionResult(FALSE, None_, None_, Some(outcome.msg))
    ELSE IF outcome.status # 1
    THEN TransactionResult(FALSE, Some(outcome.tx_hash), Some(outcome.gasUsed),
                           Some("Transaction reverted"))
    ELSE TransactionResult(TRUE, Some(outcome.tx_hash), Some(outcome.gasUsed), None_)

\* _send_tx without its except clause: a stage's exception reaches the caller.
_send_tx_NoCatch(client, func_call, outcome) ==
    IF outcome.kind = "error"
    THEN Raised(Raise("Exception", outcome.msg), None_,
                Some([from |-> client.payer, gas |-> client.gas_limit,
                      to |-> client.operator_contract, call |-> func_call,
                      signer |-> client.private_key]),
                Broadcasts(outcome.stage), Some(outcome))
    ELSE Returned(SendTxResult(outcome), None_,
                  Some([from |-> client.payer, gas |-> client.gas_limit,
                        to |-> client.operator_contract, call |-> func_call,
                        signer |-> client.private_key]),
                  TRUE, Some(outcome))

_send_tx(client, func_call, outcome) ==
    Returned(SendTxResult(outcome), None_,
             Some([from |-> client.payer, gas |-> client.gas_limit,
                   to |-> client.operator_contract, call |-> func_call,
                   signer |-> client.private_key]),
             outcome.kind = "receipt" \/ Broadcasts(outcome.stage),
             Some(outcome))

---------------------------------------------------------------------------
(* Escrow operations *)

\* pi_dict of authorize.
AuthorizePiDict(payment_info) ==
    [operator |-> payment_info.operator,
     receiver |-> payment_info.receiver,
     token |-> payment_info.token,
     maxAmount |-> str_int(payment_info.max_amount),
     preApprovalExpiry |-> payment_info.pre_approval_expiry,
     authorizationExpiry |-> payment_info.authorization_expiry,
     refundExpiry |-> payment_info.refund_expiry,
     minFeeBps |-> payment_info.min_fee_bps,
     maxFeeBps |-> payment_info.max_fee_bps,
     feeReceiver |-> payment_info.fee_receiver,
     salt |-> payment_info.salt]

_payment_info_to_camel_dict(pi) ==
    [operator |-> pi.operator,
     receiver |-> pi.receiver,
     token |-> pi.token,
     maxAmount |-> str_int(pi.max_amount),
     preApprovalExpiry |-> pi.pre_approval_expiry,
     authorizationExpiry |-> pi.authorization_expiry,
     refundExpiry |-> pi.refund_expiry,
     minFeeBps |-> pi.min_fee_bps,
     maxFeeBps |-> pi.max_fee_bps,
     feeReceiver |-> pi.fee_receiver,
     salt |-> pi.salt]

\* f"eip155:{chain_id}"
Network(client) == <<"eip155:", str_int(client.chain_id)>>

Extra(client) ==
    [escrowAddress |-> client.contracts.escrow,
     operatorAddress |-> client.contracts.operator,
     tokenCollector |-> client.contracts.token_collector]

\* An authorization whose value is cut down to the deposit limit.
Authorization_Clamped(client, payment_info, value, nonce) ==
    [from |-> client.payer,
     to |-> client.contracts.token_collector,
     value |-> str_int(IF value > DEPOSIT_LIMIT_USDC THEN DEPOSIT_LIMIT_USDC ELSE value),
     validAfter |-> <<"0">>,
     validBefore |-> str_int(payment_info.pre_approval_expiry),
     nonce |-> nonce]

\* An authorization for part of max_amount that stays valid until the
\* authorization expiry.
Authorization_WindowByValue(client, payment_info, value, nonce) ==
    [from |-> client.payer,
     to |-> client.contracts.token_collector,
     value |-> str_int(value),
     validAfter |-> <<"0">>,
     validBefore |-> str_int(IF value = payment_info.max_amount
                             THEN payment_info.pre_approval_expiry
                             ELSE payment_info.authorization_expiry),
     nonce |-> nonce]

\* The authorization dict authorize and charge build for `value`.
Authorization(client, payment_info, value, nonce) ==
    [from |-> client.payer,
     to |-> client.contracts.token_collector,
     value |-> str_int(value),
     validAfter |-> <<"0">>,
     validBefore |-> str_int(payment_info.pre_approval_expiry),
     nonce |-> nonce]

AuthorizePayload(client, payment_info, auth, signature) ==
    [url |-> <<client.facilitator_url, "/settle">>,
     x402Version |-> 2,
     scheme |-> "escrow",
     payload |-> [authorization |-> auth, signature |-> signature,
                  paymentInfo |-> AuthorizePiDict(payment_info)],
     paymentRequirements |->
        [scheme |-> "escrow",
         network |-> Network(client),
         maxAmountRequired |-> str_int(payment_info.max_amount),
         asset |-> client.contracts.usdc,
         payTo |-> payment_info.receiver,
         extra |-> Extra(client)]]

\* AuthorizeFailure reading the "error" key in place of "errorReason".
AuthorizeFailure_ErrorKey(body) ==
    AuthorizationResult(FALSE, None_, None_, None_, body.error)

\* The result authorize returns for a facilitator response that does not
\* report success.
AuthorizeFailure(body) ==
    AuthorizationResult(FALSE, None_, None_, None_, body.errorReason)

\* The result authorize returns for the facilitator's answer.
AuthorizeResult(payment_info, outcome) ==
    IF outcome.kind = "transport_error"
    THEN AuthorizationResult(FALSE, None_, None_, None_, Some(outcome.msg))
    ELSE IF TruthyBool(outcome.body.success)
    THEN AuthorizationResult(TRUE, outcome.body.transaction, Some(payment_info),
                             Some(payment_info.salt), None_)
    ELSE AuthorizeFailure(outcome.body)

authorize(client, payment_info, outcome) ==
    LET nonce == _compute_nonce(client, payment_info)
    IN  IF IsExc(nonce) THEN Raised(nonce, None_, None_, FALSE, None_)
        ELSE LET auth == Authorization(client, payment_info,
                                       payment_info.max_amount, nonce.val)
                 signature == _sign_erc3009(client, auth)
             IN  Returned(AuthorizeResult(payment_info, outcome),
                          Some(bytes_fromhex(signature)),
                          Some(AuthorizePayload(client, payment_info, auth, signature)),
                          TRUE, Some(outcome))

\* amount or payment_info.max_amount
AmountOrMax(amount, payment_info) ==
    IF TruthyInt(amount) THEN amount.v ELSE payment_info.max_amount

release(client, payment_info, amount, outcome) ==
    LET pt == _build_tuple(client, payment_info)
    IN  IF IsExc(pt) THEN Raised(pt, None_, None_, FALSE, None_)
        ELSE _send_tx(client,
                      [fn |-> "release",
                       args |-> <<pt.val, AmountOrMax(amount, payment_info)>>],
                      outcome)

refund_in_escrow(client, payment_info, amount, outcome) ==
    LET pt == _build_tuple(client, payment_info)
    IN  IF IsExc(pt) THEN Raised(pt, None_, None_, FALSE, None_)
        ELSE _send_tx(client,
                      [fn |-> "refundInEscrow",
                       args |-> <<pt.val, AmountOrMax(amount, payment_info)>>],
                      outcome)

charge(client, payment_info, amount, outcome) ==
    LET nonce == _compute_nonce(client, payment_info)
        amt == AmountOrMax(amount, payment_info)
    IN  IF IsExc(nonce) THEN Raised(nonce, None_, None_, FALSE, None_)
        ELSE LET auth == Authorization(client, payment_info, amt, nonce.val)
                 signature == _sign_erc3009(client, auth)
                 collector_data == bytes_fromhex(signature)
                 pt == _build_tuple(client, payment_info)
             IN  IF IsExc(pt)
                 THEN Raised(pt, Some(collector_data), None_, FALSE, None_)
                 ELSE [_send_tx(client,
                                [fn |-> "charge",
                                 args |-> <<pt.val, amt,
                                            to_checksum_address(client.contracts.token_collector),
                                            collector_data>>],
                                outcome)
                       EXCEPT !.signed = Some(collector_data)]

refund_post_escrow(client, payment_info, amount, token_collector, collector_data, outcome) ==
    LET pt == _build_tuple(client, payment_info)
    IN  IF IsExc(pt) THEN Raised(pt, None_, None_, FALSE, None_)
        ELSE _send_tx(client,
                      [fn |-> "refundPostEscrow",
                       args |-> <<pt.val, AmountOrMax(amount, payment_info),
                                  to_checksum_address(token_collector),
                                  collector_data>>],
                      outcome)

\* amount if amount is not None else payment_info.max_amount
AmountIfGiven(amount, payment_info) ==
    IF amount.some THEN amount.v ELSE payment_info.max_amount

SettlePayload(client, action, payment_info, amt) ==
    [url |-> <<client.facilitator_url, "/settle">>,
     x402Version |-> 2,
     scheme |-> "escrow",
     action |-> action,
     payload |-> [paymentInfo |-> _payment_info_to_camel_dict(payment_info),
                  payer |-> client.payer,
                  amount |-> str_int(amt)],
     paymentRequirements |->
        [scheme |-> "escrow",
         network |-> Network(client),
         extra |-> Extra(client)]]

\* result.get("errorReason", result.get("error", "Unknown error"))
SettleError(body) ==
    IF body.errorReason.some THEN body.errorReason
    ELSE IF body.error.some THEN body.error
    ELSE Some("Unknown error")

SettleResult(outcome) ==
    IF outcome.kind = "transport_error"
    THEN TransactionResult(FALSE, None_, None_, Some(outcome.msg))
    ELSE IF TruthyBool(outcome.body.success)
    THEN TransactionResult(TRUE, outcome.body.transaction, None_, None_)
    ELSE TransactionResult(FALSE, None_, None_, SettleError(outcome.body))

_settle_via_facilitator(client, action, payment_info, amount, outcome) ==
    Returned(SettleResult(outcome), None_,
             Some(SettlePayload(client, action, payment_info,
                                AmountIfGiven(amount, payment_info))),
             TRUE, Some(outcome))

release_via_facilitator(client, payment_info, amount, outcome) ==
    _settle_via_facilitator(client, "release", payment_info, amount, outcome)

refund_via_facilitator(client, payment_info, amount, outcome) ==
    _settle_via_facilitator(client, "refundInEscrow", payment_info, amount, outcome)

StatePayload(client, payment_info) ==
    [url |-> <<client.facilitator_url, "/escrow/state">>,
     paymentInfo |-> _payment_info_to_camel_dict(payment_info),
     payer |-> client.payer,
     network |-> Network(client),
     extra |-> Extra(client)]

query_escrow_state(client, payment_info, outcome) ==
    LET request == Some(StatePayload(client, payment_info))
    IN  IF outcome.kind = "transport_error"
        THEN Raised(Raise("httpx.HTTPError", outcome.msg), None_, request, TRUE,
                    Some(outcome))
        ELSE IF outcome.body.error.some \/ outcome.body.errorReason.some
        THEN Raised(Raise("RuntimeError",
                          <<"Escrow state query failed: ",
                            IF outcome.body.errorReason.some
                            THEN outcome.body.errorReason.v
                            ELSE outcome.body.error.v>>),
                    None_, request, TRUE, Some(outcome))
        ELSE Returned(outcome.body, None_, request, TRUE, Some(outcome))

---------------------------------------------------------------------------
(* Inputs *)

Key1 == [account |-> "0xPayer1"]
Key2 == [account |-> "0xPayer2"]

FacilitatorUrl == [u |-> "https://facilitator.ultravioletadao.xyz", slashes |-> 0]
RpcUrl == [u |-> "https://mainnet.base.org", slashes |-> 0]

\* The constructor's arguments, with the defaults of its signature.
DefaultArgs ==
    [private_key |-> Key1, facilitator_url |-> FacilitatorUrl, rpc_url |-> RpcUrl,
     chain_id |-> 8453, contracts |-> None_, operator_address |-> None_,
     gas_limit |-> 300000]

Construct(a) ==
    AdvancedEscrowClient(a.private_key, a.facilitator_url, a.rpc_url, a.chain_id,
                         a.contracts, a.operator_address, a.gas_limit)

DefaultClient == Construct(DefaultArgs)

\* Constructor arguments that differ from the defaults in one setting.
NonceClientArgs ==
    {DefaultArgs,
     [DefaultArgs EXCEPT !.private_key = Key2],
     [DefaultArgs EXCEPT !.facilitator_url = [u |-> "https://facilitator.example", slashes |-> 1]],
     [DefaultArgs EXCEPT !.rpc_url = [u |-> "https://rpc.example", slashes |-> 0]],
     [DefaultArgs EXCEPT !.gas_limit = 500000],
     [DefaultArgs EXCEPT !.operator_address = Some(Addr("0xOperator2"))],
     [DefaultArgs EXCEPT !.chain_id = 42161, !.operator_address = Some(Addr("0xa06958D9"))],
     [DefaultArgs EXCEPT !.chain_id = 42220, !.operator_address = Some(Addr("0xa06958D9"))],
     [DefaultArgs EXCEPT !.contracts =
         Some([BASE_MAINNET_CONTRACTS EXCEPT !.escrow = Lower("0xb9488351")])],
     [DefaultArgs EXCEPT !.contracts =
         Some([BASE_MAINNET_CONTRACTS EXCEPT !.escrow = Addr("0x320a3c35")])]}

NonceClients == {Construct(a) : a \in {b \in NonceClientArgs : ~IsExc(Construct(b))}}

BaseInfo ==
    PaymentInfo(Addr("0xa06958D9"), Addr("0xBBBBBBBB"), Addr("0x833589fC"),
                5000000, 4600, 87400, 605800, 0, 800, EmptyStr, IntSalt(16))

\* PaymentInfo values that differ from BaseInfo in one field, the salt in
\* every form a caller may write it in.
NonceInfos ==
    {BaseInfo,
     [BaseInfo EXCEPT !.operator = Lower("0xa06958D9")],
     [BaseInfo EXCEPT !.operator = Addr("0xOperator2")],
     [BaseInfo EXCEPT !.receiver = Addr("0xCCCCCCCC")],
     [BaseInfo EXCEPT !.token = Addr("0xaf88d065")],
     [BaseInfo EXCEPT !.max_amount = 1000000],
     [BaseInfo EXCEPT !.pre_approval_expiry = 8200],
     [BaseInfo EXCEPT !.authorization_expiry = 173800],
     [BaseInfo EXCEPT !.refund_expiry = 1210600],
     [BaseInfo EXCEPT !.min_fee_bps = 100],
     [BaseInfo EXCEPT !.max_fee_bps = 1000],
     [BaseInfo EXCEPT !.fee_receiver = Addr("0xFeeRecv")],
     [BaseInfo EXCEPT !.salt = IntSalt(17)],
     [BaseInfo EXCEPT !.salt = StrSalt(<<"0", "x", "1", "0">>)],
     [BaseInfo EXCEPT !.salt = StrSalt(<<"0", "x", "1", "1">>)],
     [BaseInfo EXCEPT !.salt = StrSalt(<<"1", "6">>)],
     [BaseInfo EXCEPT !.salt = StrSalt(<<"1", "a">>)]}

\* The (client, PaymentInfo) pairs the helpers are applied to.
NonceInputs ==
    (NonceClients \X {BaseInfo})
    \cup ({DefaultClient, Construct([DefaultArgs EXCEPT !.private_key = Key2])} \X NonceInfos)

---------------------------------------------------------------------------
(* The helpers applied to drawn inputs *)

\* The log keeps the two latest invocations.
Logged(log, entry) == IF Len(log) < 2 THEN Append(log, entry) ELSE <<log[2], entry>>

Idle == [op |-> "none"]

InitNonce ==
    /\ self = DefaultClient
    /\ info = BaseInfo
    /\ last = Idle
    /\ ncalls = 0
    /\ nposts = 0
    /\ ntxs = 0
    /\ trace = <<>>
    /\ payment = Unused
    /\ clock = 0
    /\ threads = Unused
    /\ chain = Unused

ComputeNonce(client, pi) ==
    /\ trace' = Logged(trace, [fn |-> "_compute_nonce", client |-> client, info |-> pi,
                               pi_tuple |-> NonceTuple(client, pi),
                               out |-> _compute_nonce(client, pi)])
    /\ UNCHANGED <<self, info, last, ncalls, nposts, ntxs, payment, clock, threads, chain>>

BuildTuple(client, pi) ==
    /\ trace' = Logged(trace, [fn |-> "_build_tuple", client |-> client, info |-> pi,
                               out |-> _build_tuple(client, pi)])
    /\ UNCHANGED <<self, info, last, ncalls, nposts, ntxs, payment, clock, threads, chain>>

NextNonce ==
    \/ \E in \in NonceInputs : ComputeNonce(in[1], in[2])
    \/ \E in \in NonceInputs : BuildTuple(in[1], in[2])

SpecNonce == InitNonce /\ [][NextNonce]_vars

---------------------------------------------------------------------------
(* The escrow operations against a facilitator and a chain *)

MaxCalls == 2

\* One client per registry chain plus one on a chain the registry lacks.
SpecClientArgs ==
    {DefaultArgs, [DefaultArgs EXCEPT !.chain_id = 10]}
    \cup {[DefaultArgs EXCEPT !.chain_id = c, !.operator_address = Some(Addr("0xOperator2"))] :
            c \in DOMAIN ESCROW_CONTRACTS \ {8453}}

SpecClients == {Construct(a) : a \in {b \in SpecClientArgs : ~IsExc(Construct(b))}}

SpecInfos ==
    {BaseInfo,
     [BaseInfo EXCEPT !.max_amount = 150000000],
     [BaseInfo EXCEPT !.salt = StrSalt(<<"1", "6">>)],
     [BaseInfo EXCEPT !.salt = StrSalt(<<"1", "a">>)]}

\* The amount argument of an operation: absent, zero, or part of the maximum.
Amounts == {None_, Some(0), Some(2000000)}

Body(success, transaction, errorReason, error) ==
    [success |-> success, transaction |-> transaction,
     errorReason |-> errorReason, error |-> error]

\* JSON bodies the facilitator's /settle may answer with.
SettleBodies ==
    {Body(Some(TRUE), Some("0xtx1"), None_, None_),
     Body(Some(TRUE), None_, None_, None_),
     Body(Some(FALSE), None_, Some("insufficient_balance"), None_),
     Body(Some(FALSE), None_, None_, Some("bad request")),
     Body(Some(FALSE), None_, None_, None_),
     Body(None_, Some("0xtx1"), None_, None_),
     Body(None_, None_, None_, None_)}

TransportError == [kind |-> "transport_error", msg |-> "connection refused"]

SettleOutcomes == {[kind |-> "response", body |-> b] : b \in SettleBodies} \cup {TransportError}

StateBody(capturable, errorReason, error) ==
    [capturableAmount |-> capturable, refundableAmount |-> capturable,
     hasCollectedPayment |-> capturable.some,
     errorReason |-> errorReason, error |-> error]

\* JSON bodies the facilitator's /escrow/state may answer with.
StateOutcomes ==
    {[kind |-> "response", body |-> b] :
        b \in {StateBody(Some(<<"5", "0", "0", "0", "0", "0", "0">>), None_, None_),
               StateBody(None_, Some("payment_not_found"), None_),
               StateBody(None_, None_, Some("bad request"))}}
    \cup {TransportError}

\* What the chain does to one _send_tx: an exception at one stage, or a
\* receipt with status 1 (success) or 0 (reverted).
ChainOutcomes ==
    {[kind |-> "error", stage |-> SendTxStages[i], msg |-> "rpc error"] :
        i \in DOMAIN SendTxStages}
    \cup {[kind |-> "receipt", status |-> st, gasUsed |-> 21000, tx_hash |-> "0xtx2"] :
            st \in {0, 1}}

FacilitatorOps ==
    {"authorize", "release_via_facilitator", "refund_via_facilitator", "query_escrow_state"}
DirectOps == {"release", "refund_in_escrow", "charge", "refund_post_escrow"}

\* httpx_post behind a cache that drops a request equal to the previous one.
httpx_post_Dedup(n, previous, request) ==
    IF previous.op # "none" /\ previous.request = Some(request) THEN n ELSE n + 1

\* httpx.post: one more POST has reached the wire.
httpx_post(n, previous, request) == n + 1

\* w3.eth.send_raw_transaction: one more raw transaction was handed to the node.
send_raw_transaction(n, previous, tx) == n + 1

\* Every client with the base PaymentInfo, and the default client with every
\* PaymentInfo.
SpecConfigs == (SpecClients \X {BaseInfo}) \cup ({DefaultClient} \X SpecInfos)

Init ==
    /\ \E c \in SpecConfigs : self = c[1] /\ info = c[2]
    /\ last = Idle
    /\ ncalls = 0
    /\ nposts = 0
    /\ ntxs = 0
    /\ trace = <<>>
    /\ payment = Unused
    /\ clock = 0
    /\ threads = Unused
    /\ chain = Unused

\* An operation that stores the amount it resolved back into the PaymentInfo.
InfoAfter_AmountStored(op, payment_info, amount) ==
    IF amount.some THEN [payment_info EXCEPT !.max_amount = amount.v] ELSE payment_info

\* The caller's PaymentInfo object after an operation ran on it: the
\* operations read its fields into locals (salt, amt, pi_dict, pi_tuple) and
\* assign to none of them.
InfoAfter(op, payment_info, amount) == payment_info

\* The caller invoked `op` with `amount` and it did `r`.
Call(op, amount, r) ==
    /\ ncalls < MaxCalls
    /\ ncalls' = ncalls + 1
    /\ last' = [op |-> op, amount |-> amount, info |-> info,
                repeat |-> last.op = op /\ r.request.some /\ last.request = r.request,
                raised |-> r.raised, result |-> r.result, signed |-> r.signed,
                request |-> r.request, submitted |-> r.submitted,
                outcome |-> r.outcome]
    /\ nposts' = IF r.submitted /\ op \in FacilitatorOps
                 THEN httpx_post(nposts, last, r.request.v) ELSE nposts
    /\ ntxs' = IF r.submitted /\ op \in DirectOps
               THEN send_raw_transaction(ntxs, last, r.request.v) ELSE ntxs
    /\ info' = InfoAfter(op, info, amount)
    /\ UNCHANGED <<self, trace, payment, clock, threads, chain>>

Authorize ==
    \E o \in SettleOutcomes : Call("authorize", None_, authorize(self, info, o))

Release ==
    \E a \in Amounts : \E o \in ChainOutcomes :
        Call("release", a, release(self, info, a, o))

RefundInEscrow ==
    \E a \in Amounts : \E o \in ChainOutcomes :
        Call("refund_in_escrow", a, refund_in_escrow(self, info, a, o))

Charge ==
    \E a \in Amounts : \E o \in ChainOutcomes :
        Call("charge", a, charge(self, info, a, o))

RefundPostEscrow ==
    \E a \in Amounts : \E o \in ChainOutcomes :
        Call("refund_post_escrow", a,
             refund_post_escrow(self, info, a, ZERO_ADDRESS, <<>>, o))

ReleaseViaFacilitator ==
    \E a \in Amounts : \E o \in SettleOutcomes :
        Call("release_via_facilitator", a, release_via_facilitator(self, info, a, o))

RefundViaFacilitator ==
    \E a \in Amounts : \E o \in SettleOutcomes :
        Call("refund_via_facilitator", a, refund_via_facilitator(self, info, a, o))

QueryEscrowState ==
    \E o \in StateOutcomes :
        Call("query_escrow_state", None_, query_escrow_state(self, info, o))

Next ==
    \/ Authorize
    \/ Release
    \/ RefundInEscrow
    \/ Charge
    \/ RefundPostEscrow
    \/ ReleaseViaFacilitator
    \/ RefundViaFacilitator
    \/ QueryEscrowState

Spec == Init /\ [][Next]_vars

---------------------------------------------------------------------------
(* Construction: clients, PaymentInfo values, registry lookups *)

\* Chain ids passed to the constructor and the registry: every registered
\* chain, and two the registry lacks (Optimism, HyperEVM).
SetupChains == DOMAIN ESCROW_CONTRACTS \cup {10, 999}

\* A caller's own deployment.
CustomContracts ==
    [operator |-> Addr("0xCustomOp"), escrow |-> Addr("0xCustomEs"),
     operator_factory |-> Addr("0xCustomFa"), token_collector |-> Addr("0xCustomTc"),
     protocol_fee_config |-> Addr("0xCustomPf"), refund_request |-> Addr("0xCustomRr"),
     usdc |-> Addr("0xCustomUs")]

SetupClientArgs ==
    {[DefaultArgs EXCEPT !.chain_id = c, !.contracts = k, !.operator_address = o] :
        c \in SetupChains, k \in {None_, Some(CustomContracts)},
        o \in {None_, Some(Addr("0xOperator2"))}}

\* Clock readings of int(time.time()).
Nows == {0, 1700000000}

\* The salt argument of build_payment_info.
SaltArgs == {None_, Some(<<"0", "x", "1", "0">>)}

\* The text secrets.token_hex returns.
TokenHex == <<"a", "b">>

\* One construction or lookup: its arguments and what it returned or raised.
Made(op, args, out) ==
    /\ ncalls < MaxCalls
    /\ ncalls' = ncalls + 1
    /\ last' = [op |-> op, args |-> args, out |-> out]
    /\ UNCHANGED <<nposts, ntxs, trace, payment, clock, threads, chain>>

\* AdvancedEscrowClient(...): the caller holds the new client unless the
\* constructor raised.
NewClient ==
    \E a \in SetupClientArgs :
        /\ Made("__init__", a, Construct(a))
        /\ self' = IF IsExc(Construct(a)) THEN self ELSE Construct(a)
        /\ UNCHANGED info

\* PaymentInfo(...) with or without a fee_receiver.
NewPaymentInfo ==
    \E o \in {Addr("0xa06958D9"), Addr("0xOperator2")} :
    \E f \in {EmptyStr, Addr("0xFeeRecv")} :
        LET made == PaymentInfo(o, Addr("0xBBBBBBBB"), Addr("0x833589fC"), 5000000,
                                4600, 87400, 605800, 0, 800, f, IntSalt(16))
        IN  /\ Made("PaymentInfo", [operator |-> o, fee_receiver |-> f], made)
            /\ info' = made
            /\ UNCHANGED self

\* self.build_payment_info(receiver, amount, tier=..., salt=...)
BuildPaymentInfo ==
    \E tier \in TaskTier : \E now \in Nows : \E salt \in SaltArgs :
        LET made == build_payment_info(self, Addr("0xBBBBBBBB"), 5000000, tier, salt,
                                       0, 800, now, TokenHex)
        IN  /\ Made("build_payment_info", [tier |-> tier, now |-> now, salt |-> salt], made)
            /\ info' = made
            /\ UNCHANGED self

\* get_escrow_contracts(chain_id), with what the two discovery accessors
\* say at the same time.
LookUp ==
    \E c \in SetupChains :
        /\ Made("get_escrow_contracts",
                [chain_id |-> c, supported |-> get_supported_escrow_chains,
                 is_supported |-> is_escrow_supported(c)],
                get_escrow_contracts(c))
        /\ UNCHANGED <<self, info>>

NextSetup ==
    \/ NewClient
    \/ NewPaymentInfo
    \/ BuildPaymentInfo
    \/ LookUp

SpecSetup == InitNonce /\ [][NextSetup]_vars

---------------------------------------------------------------------------
(* escrow.py: the release / refund predicates of an EscrowPayment *)

EscrowStatus == {"pending", "held", "released", "refunded", "disputed", "expired"}

\* An ISO-8601 timestamp text: the wall-clock second it writes and the zone
\* suffix it ends with ("Z", "+00:00" or "+00:01").
Iso(wall, zone) == [wall |-> wall, zone |-> zone]

\* text.replace("Z", "+00:00")
replace_Z(text) == [text EXCEPT !.zone = IF @ = "Z" THEN "+00:00" ELSE @]

\* Seconds east of UTC of a zone suffix datetime.fromisoformat accepts.
utcoffset(zone) ==
    CASE zone = "+00:00" -> 0
      [] zone = "+00:01" -> 60

\* datetime.fromisoformat: an aware datetime, the instant it denotes (in
\* seconds since the epoch) and its tzinfo.
fromisoformat(text) ==
    [instant |-> text.wall - utcoffset(text.zone), tzinfo |-> text.zone]

\* datetime.now(tz) when the clock reads `reading`.
datetime_now(reading, tzinfo) == [instant |-> reading, tzinfo |-> tzinfo]

\* datetime.timestamp()
timestamp(dt) == dt.instant

\* can_release_escrow that does not look at the hold time.
can_release_escrow_NoHold(e, reading1, reading2) ==
    IF e.status # "held" THEN FALSE
    ELSE LET expires_at == fromisoformat(replace_Z(e.expires_at))
         IN  ~(expires_at.instant < datetime_now(reading1, expires_at.tzinfo).instant)

\* can_release_escrow; the clock reads `reading1` at the expiry check and
\* `reading2` at the hold-time check.
can_release_escrow(e, reading1, reading2) ==
    IF e.status # "held" THEN FALSE
    ELSE LET expires_at == fromisoformat(replace_Z(e.expires_at))
         IN  IF expires_at.instant < datetime_now(reading1, expires_at.tzinfo).instant
             THEN FALSE
             ELSE IF e.release_conditions.some
                     /\ TruthyInt(e.release_conditions.v.min_hold_time)
             THEN LET created_at == fromisoformat(replace_Z(e.created_at))
                      min_release_time ==
                          timestamp(created_at) + e.release_conditions.v.min_hold_time.v
                  IN  ~(timestamp(datetime_now(reading2, created_at.tzinfo))
                          < min_release_time)
             ELSE TRUE

\* can_refund_escrow that accepts a pending escrow only.
can_refund_escrow_PendingOnly(e) == e.status = "pending"

can_refund_escrow(e) == e.status \in {"held", "pending"}

is_escrow_expired(e, reading) ==
    LET expires_at == fromisoformat(replace_Z(e.expires_at))
    IN  expires_at.instant < datetime_now(reading, expires_at.tzinfo).instant

\* The clock stops at MaxClock seconds.
MaxClock == 180

\* One tick of the clock, in seconds.
TickSeconds == {60}

\* release_conditions of a record: absent, without a hold time, or with
\* one of 0, 60 or 120 seconds.
ReleaseConditionsSet ==
    {None_, Some([min_hold_time |-> None_])}
    \cup {Some([min_hold_time |-> Some(h)]) : h \in {0, 60, 120}}

\* Escrow records created at second 0 that expire at second 60 or 120.
EscrowPayments ==
    {[status |-> st, created_at |-> Iso(0, "Z"), expires_at |-> x,
      release_conditions |-> rc] :
        st \in EscrowStatus,
        x \in {Iso(60, "+00:00"), Iso(120, "Z"), Iso(180, "+00:01")},
        rc \in ReleaseConditionsSet}

InitEscrow ==
    /\ self = DefaultClient
    /\ info = BaseInfo
    /\ last = Idle
    /\ ncalls = 0
    /\ nposts = 0
    /\ ntxs = 0
    /\ trace = <<>>
    /\ payment \in EscrowPayments
    /\ clock = 0
    /\ threads = Unused
    /\ chain = Unused

\* The clock moves on.
Tick ==
    /\ clock < MaxClock
    /\ \E d \in TickSeconds : clock' = clock + d
    /\ UNCHANGED <<self, info, last, ncalls, nposts, ntxs, trace, payment, threads, chain>>

\* can_release_escrow(payment); the clock may move between its two reads.
CanRelease ==
    \E d \in {0} \cup (IF clock < MaxClock THEN TickSeconds ELSE {}) :
        /\ trace' = Logged(trace, [fn |-> "can_release_escrow", reading1 |-> clock,
                                   reading2 |-> clock + d,
                                   out |-> can_release_escrow(payment, clock, clock + d)])
        /\ clock' = clock + d
        /\ UNCHANGED <<self, info, last, ncalls, nposts, ntxs, payment, threads, chain>>

CanRefund ==
    /\ trace' = Logged(trace, [fn |-> "can_refund_escrow", reading1 |-> clock,
                               reading2 |-> clock, out |-> can_refund_escrow(payment)])
    /\ UNCHANGED <<self, info, last, ncalls, nposts, ntxs, payment, clock, threads, chain>>

IsExpired ==
    /\ trace' = Logged(trace, [fn |-> "is_escrow_expired", reading1 |-> clock,
                               reading2 |-> clock,
                               out |-> is_escrow_expired(payment, clock)])
    /\ UNCHANGED <<self, info, last, ncalls, nposts, ntxs, payment, clock, threads, chain>>

NextEscrow ==
    \/ Tick
    \/ CanRelease
    \/ CanRefund
    \/ IsExpired

SpecEscrow == InitEscrow /\ [][NextEscrow]_vars

---------------------------------------------------------------------------
(* _send_tx, statement by statement, in overlapping invocations *)

\* The caller's threads; each runs one direct operation on the one client.
Threads == {"t1", "t2"}

\* Where an invocation stands: not entered, entered the try, gas price
\* read, count read, transaction built, signed, sent (waiting for the
\* receipt), returned.
BeforeSubmission == {"counted", "built", "signed"}

\* A node that reserves a count for every invocation that has read one.
get_transaction_count_Reserving(ch, th) ==
    ch.count + Cardinality({u \in DOMAIN th : th[u].pc \in BeforeSubmission \cup {"sent"}})

\* w3.eth.get_transaction_count(self.payer): the transactions of the payer
\* mined so far.
get_transaction_count(ch, th) == ch.count

\* Whether the node takes a raw transaction with this count: it is not
\* below the account's count and no pending transaction holds it.
NodeAccepts(ch, tx_nonce) ==
    /\ tx_nonce >= ch.count
    /\ \A tx \in ch.pool : tx.nonce # tx_nonce

InitDispatch ==
    /\ self = DefaultClient
    /\ info = BaseInfo
    /\ last = Idle
    /\ ncalls = 0
    /\ nposts = 0
    /\ ntxs = 0
    /\ trace = <<>>
    /\ payment = Unused
    /\ clock = 0
    /\ threads = [t \in Threads |-> [pc |-> "idle", call |-> "none", nonce |-> None_,
                                      result |-> None_]]
    /\ chain = [count |-> 0, pool |-> {}, mined |-> {}]

\* What a step of one thread leaves alone.
Aside == <<self, info, last, nposts, trace, payment, clock>>

\* A thread calls release or refund_in_escrow, which enters _send_tx.
Enter(t) ==
    /\ threads[t].pc = "idle"
    /\ \E op \in {"release", "refund_in_escrow"} :
          threads' = [threads EXCEPT ![t].pc = "entered", ![t].call = op]
    /\ ncalls' = ncalls + 1
    /\ UNCHANGED <<Aside, ntxs, chain>>

\* gas_price = self.w3.eth.gas_price
ReadGasPrice(t) ==
    /\ threads[t].pc = "entered"
    /\ threads' = [threads EXCEPT ![t].pc = "gas_read"]
    /\ UNCHANGED <<Aside, ncalls, ntxs, chain>>

\* "nonce": self.w3.eth.get_transaction_count(self.payer)
ReadCount(t) ==
    /\ threads[t].pc = "gas_read"
    /\ threads' = [threads EXCEPT ![t].pc = "counted",
                                   ![t].nonce = Some(get_transaction_count(chain, threads))]
    /\ UNCHANGED <<Aside, ncalls, ntxs, chain>>

\* tx = func_call.build_transaction({...})
BuildTransaction(t) ==
    /\ threads[t].pc = "counted"
    /\ threads' = [threads EXCEPT ![t].pc = "built"]
    /\ UNCHANGED <<Aside, ncalls, ntxs, chain>>

\* signed = self.w3.eth.account.sign_transaction(tx, self.private_key)
SignTransaction(t) ==
    /\ threads[t].pc = "built"
    /\ threads' = [threads EXCEPT ![t].pc = "signed"]
    /\ UNCHANGED <<Aside, ncalls, ntxs, chain>>

\* tx_hash = self.w3.eth.send_raw_transaction(signed.raw_transaction): the
\* node takes the transaction, or raises and the except clause returns.
SendRaw(t) ==
    /\ threads[t].pc = "signed"
    /\ ntxs' = send_raw_transaction(ntxs, last, threads[t])
    /\ IF NodeAccepts(chain, threads[t].nonce.v)
       THEN /\ chain' = [chain EXCEPT !.pool = @ \cup {[nonce |-> threads[t].nonce.v, by |-> t]}]
            /\ threads' = [threads EXCEPT ![t].pc = "sent"]
       ELSE /\ chain' = chain
            /\ threads' = [threads EXCEPT
                              ![t].pc = "returned",
                              ![t].result = Some(SendTxResult(
                                  [kind |-> "error", stage |-> "send_raw_transaction",
                                   msg |-> "nonce too low"]))]
    /\ UNCHANGED <<Aside, ncalls>>

\* The chain mines the pending transaction that is next for the account,
\* with status 1 or 0.
Mine ==
    \E tx \in chain.pool : \E st \in {0, 1} :
        /\ tx.nonce = chain.count
        /\ chain' = [count |-> chain.count + 1, pool |-> chain.pool \ {tx},
                     mined |-> chain.mined \cup {[by |-> tx.by, status |-> st]}]
        /\ UNCHANGED <<Aside, ncalls, ntxs, threads>>

\* receipt = self.w3.eth.wait_for_transaction_receipt(tx_hash, timeout=120)
\* and the two returns that follow it.
Receipt(t) ==
    /\ threads[t].pc = "sent"
    /\ \E r \in chain.mined :
          /\ r.by = t
          /\ threads' = [threads EXCEPT
                            ![t].pc = "returned",
                            ![t].result = Some(SendTxResult(
                                [kind |-> "receipt", status |-> r.status,
                                 gasUsed |-> 21000, tx_hash |-> t]))]
    /\ UNCHANGED <<Aside, ncalls, ntxs, chain>>

\* The wait times out while the transaction is pending; the except clause
\* returns.
WaitTimeout(t) ==
    /\ threads[t].pc = "sent"
    /\ \E tx \in chain.pool : tx.by = t
    /\ threads' = [threads EXCEPT
                      ![t].pc = "returned",
                      ![t].result = Some(SendTxResult(
                          [kind |-> "error", stage |-> "wait_for_transaction_receipt",
                           msg |-> "timeout"]))]
    /\ UNCHANGED <<Aside, ncalls, ntxs, chain>>

NextDispatch ==
    \/ \E t \in Threads : Enter(t)
    \/ \E t \in Threads : ReadGasPrice(t)
    \/ \E t \in Threads : ReadCount(t)
    \/ \E t \in Threads : BuildTransaction(t)
    \/ \E t \in Threads : SignTransaction(t)
    \/ \E t \in Threads : SendRaw(t)
    \/ Mine
    \/ \E t \in Threads : Receipt(t)
    \/ \E t \in Threads : WaitTimeout(t)

SpecDispatch == InitDispatch /\ [][NextDispatch]_vars

---------------------------------------------------------------------------
(* Properties of the commitment builder (SpecNonce) *)

NonceCalls == {i \in DOMAIN trace : trace[i].fn = "_compute_nonce"}
TupleCalls == {i \in DOMAIN trace : trace[i].fn = "_build_tuple"}

\* A salt in one of the three forms the client accepts: a native integer, a
\* 0x-prefixed hex string, a plain decimal string.
AcceptedSalt(salt) ==
    \/ salt.t = "int"
    \/ salt.t = "str" /\ startswith_0x(salt.s) /\ ~IsExc(int16(salt.s))
    \/ salt.t = "str" /\ ~IsExc(int10(salt.s))

DifferingPositions(a, b) == {k \in DOMAIN a : a[k] # b[k]}

\* C1: for every PaymentInfo with an accepted salt form, the tuple
\* _build_tuple sends on-chain and the tuple _compute_nonce hashes, built by
\* the same client, differ in the payer position (2) and in no other.
C1_TuplesDifferOnlyInPayer ==
    \A i \in NonceCalls : \A j \in TupleCalls :
        (/\ trace[i].client = trace[j].client
         /\ trace[i].info = trace[j].info
         /\ AcceptedSalt(trace[i].info.salt))
        => /\ ~IsExc(trace[i].pi_tuple)
           /\ ~IsExc(trace[j].out)
           /\ DifferingPositions(trace[i].pi_tuple.val, trace[j].out.val) = {2}

\* C2: two invocations of _compute_nonce with the same PaymentInfo, chain id
\* and escrow address return the same nonce, whatever was invoked in between
\* and whatever the other settings of the two clients are.
C2_NonceIsPure ==
    \A i \in NonceCalls : \A j \in NonceCalls :
        (/\ trace[i].info = trace[j].info
         /\ trace[i].client.chain_id = trace[j].client.chain_id
         /\ trace[i].client.contracts.escrow = trace[j].client.contracts.escrow)
        => trace[i].out = trace[j].out

\* Two nonces were computed for one PaymentInfo by clients on the same chain
\* and escrow that differ in their operator contract.
C2_Witness ==
    /\ Len(trace) = 2
    /\ NonceCalls = {1, 2}
    /\ trace[1].info = trace[2].info
    /\ trace[1].client.chain_id = trace[2].client.chain_id
    /\ trace[1].client.contracts.escrow = trace[2].client.contracts.escrow
    /\ trace[1].client.contracts.operator # trace[2].client.contracts.operator
    /\ ~IsExc(trace[1].out)

\* C3: clients with different private keys (payer addresses) on the same
\* chain id and escrow address compute the same nonce for a PaymentInfo.
C3_NoncePayerIndependent ==
    \A i \in NonceCalls : \A j \in NonceCalls :
        (/\ trace[i].client.payer # trace[j].client.payer
         /\ trace[i].client.chain_id = trace[j].client.chain_id
         /\ trace[i].client.contracts.escrow = trace[j].client.contracts.escrow
         /\ trace[i].info = trace[j].info)
        => /\ trace[i].out = trace[j].out
           /\ ~IsExc(trace[i].pi_tuple) => trace[i].pi_tuple.val[2] = ZERO_ADDRESS

\* Two clients with different payers computed a nonce for one PaymentInfo.
C3_Witness ==
    /\ Len(trace) = 2
    /\ NonceCalls = {1, 2}
    /\ trace[1].client.payer # trace[2].client.payer
    /\ trace[1].client.chain_id = trace[2].client.chain_id
    /\ trace[1].client.contracts.escrow = trace[2].client.contracts.escrow
    /\ trace[1].info = trace[2].info
    /\ ~IsExc(trace[1].out)

\* The thirteen inputs of the nonce as the caller wrote them.
WrittenInputs(e) ==
    <<e.info.operator, e.info.receiver, e.info.token, e.info.max_amount,
      e.info.pre_approval_expiry, e.info.authorization_expiry,
      e.info.refund_expiry, e.info.min_fee_bps, e.info.max_fee_bps,
      e.info.fee_receiver, e.info.salt, e.client.chain_id,
      e.client.contracts.escrow>>

\* The salt as the integer its written form denotes.
DenotedSalt(salt) ==
    IF salt.t = "int" THEN salt.n
    ELSE IF startswith_0x(salt.s) THEN int16(salt.s).val
    ELSE int10(salt.s).val

\* The thirteen inputs as the values they denote: an address whatever the
\* letter case it is written in, the salt as an integer.
DenotedInputs(e) ==
    <<e.info.operator.a, e.info.receiver.a, e.info.token.a, e.info.max_amount,
      e.info.pre_approval_expiry, e.info.authorization_expiry,
      e.info.refund_expiry, e.info.min_fee_bps, e.info.max_fee_bps,
      e.info.fee_receiver.a, DenotedSalt(e.info.salt), e.client.chain_id,
      e.client.contracts.escrow.a>>

\* H(chain_id, escrow, H(typehash, tuple)) over the denoted values in the
\* declared order, payer zero.
TwoStageHash(d) ==
    hex0x(keccak(encode(<<"uint256", "address", "bytes32">>,
        <<d[12], Addr(d[13]),
          keccak(encode(<<"bytes32", PAYMENT_INFO_TUPLE_TYPE>>,
              <<PAYMENT_INFO_TYPEHASH,
                <<Addr(d[1]), ZERO_ADDRESS, Addr(d[2]), Addr(d[3]), d[4], d[5],
                  d[6], d[7], d[8], d[9], Addr(d[10]), d[11]>> >>))>>)))

\* C4 as stated: two computed nonces whose inputs differ in the written value
\* of exactly one PaymentInfo field, the chain id or the escrow address are
\* different nonces.
C4_AnyWrittenChangeChangesNonce ==
    \A i \in NonceCalls : \A j \in NonceCalls :
        (/\ ~IsExc(trace[i].out)
         /\ ~IsExc(trace[j].out)
         /\ Cardinality(DifferingPositions(WrittenInputs(trace[i]),
                                           WrittenInputs(trace[j]))) = 1)
        => trace[i].out # trace[j].out

\* C4 amended: a computed nonce is the two-stage hash of the denoted values
\* in the declared order, and two computed nonces whose inputs differ in the
\* denoted value of exactly one field, the chain id or the escrow address
\* are different nonces.
C4_DenotedChangeChangesNonce ==
    \A i \in NonceCalls : \A j \in NonceCalls :
        (~IsExc(trace[i].out) /\ ~IsExc(trace[j].out))
        => /\ trace[i].out.val = TwoStageHash(DenotedInputs(trace[i]))
           /\ Cardinality(DifferingPositions(DenotedInputs(trace[i]),
                                             DenotedInputs(trace[j]))) = 1
              => trace[i].out # trace[j].out

\* Two nonces were computed from inputs that differ in the denoted value of
\* one field, here the fee ceiling.
C4_Witness ==
    /\ Len(trace) = 2
    /\ NonceCalls = {1, 2}
    /\ ~IsExc(trace[1].out)
    /\ ~IsExc(trace[2].out)
    /\ DifferingPositions(DenotedInputs(trace[1]), DenotedInputs(trace[2])) = {9}

---------------------------------------------------------------------------
(* Properties of the operations (Spec) *)

Called == last.op # "none"

\* C5: on every registry chain the domain _sign_erc3009 signs under carries
\* that network's USDC domain name ("USDC" on Celo and Monad, "USD Coin"
\* elsewhere), version "2", the client's chain id and the token address.
C5_DomainPerNetwork ==
    (/\ Called
     /\ last.signed.some
     /\ self.chain_id \in DOMAIN ESCROW_CONTRACTS)
    => /\ last.signed.v.domain.name = get_usdc_domain_name(EvmNetworkName(self.chain_id))
       /\ last.signed.v.domain.version = "2"
       /\ last.signed.v.domain.chainId = self.chain_id
       /\ last.signed.v.domain.verifyingContract.a = self.contracts.usdc.a

\* C6: authorize returns success == True exactly when the facilitator's
\* response reports success: true and carries a transaction identifier;
\* every other response and every transport failure yields success == False.
C6_SuccessNeedsTransaction ==
    (Called /\ last.op = "authorize" /\ last.result.some)
    => (last.result.v.success
        <=> /\ last.outcome.v.kind = "response"
            /\ last.outcome.v.body.success = Some(TRUE)
            /\ last.outcome.v.body.transaction.some)

\* The facilitator answered the last call with success false and a reason.
RefusedWithReason ==
    /\ Called
    /\ last.outcome.some
    /\ last.outcome.v.kind = "response"
    /\ last.outcome.v.body.success = Some(FALSE)
    /\ last.outcome.v.body.errorReason.some

\* C7: when the facilitator answers authorize with success false and an
\* errorReason r, authorize returns, without raising, a result with
\* success == False, error == r, no transaction hash and no payment_info.
C7_FailureCarriesReason ==
    (last.op = "authorize" /\ RefusedWithReason)
    => /\ IsNone(last.raised)
       /\ last.result =
            Some([success |-> FALSE, transaction_hash |-> None_,
                  payment_info |-> None_, salt |-> None_,
                  error |-> Some(last.outcome.v.body.errorReason.v)])

\* authorize was refused with errorReason "insufficient_balance".
C7_Witness ==
    /\ last.op = "authorize"
    /\ RefusedWithReason
    /\ last.outcome.v.body.errorReason = Some("insufficient_balance")
    /\ last.result.some
    /\ ~last.result.v.success

\* The facilitator or the chain failed the last call: a transport failure, an
\* exception at a stage of the dispatcher, a reverted receipt, a /settle
\* response that does not report success, a state response with an error.
EnvironmentFailed ==
    /\ Called
    /\ last.outcome.some
    /\ \/ last.outcome.v.kind \in {"transport_error", "error"}
       \/ last.outcome.v.kind = "receipt" /\ last.outcome.v.status # 1
       \/ /\ last.outcome.v.kind = "response"
          /\ IF last.op = "query_escrow_state"
             THEN last.outcome.v.body.error.some \/ last.outcome.v.body.errorReason.some
             ELSE last.outcome.v.body.success # Some(TRUE)

\* C8: on a facilitator, transport or chain failure query_escrow_state
\* raises, and every other public operation returns a result with
\* success == False and does not raise.
C8_OnlyQueryRaises ==
    EnvironmentFailed
    => IF last.op = "query_escrow_state"
       THEN last.raised.some
       ELSE /\ IsNone(last.raised)
            /\ last.result.some
            /\ last.result.v.success = FALSE

\* charge returned a failed result after the node refused the transaction.
C8_Witness ==
    /\ last.op = "charge"
    /\ EnvironmentFailed
    /\ last.outcome.v.kind = "error"
    /\ last.outcome.v.stage = "send_raw_transaction"
    /\ last.result.some
    /\ ~last.result.v.success

\* C9: the amount a direct operation passes to the contract is the caller's
\* amount argument whenever one is supplied, 0 included, and max_amount only
\* when the argument is absent.
C9_SuppliedAmountIsPassed ==
    (Called /\ last.op \in DirectOps /\ last.request.some)
    => last.request.v.call.args[2] =
         (IF last.amount.some THEN last.amount.v ELSE last.info.max_amount)

SubmittingOps ==
    {"charge", "release", "refund_in_escrow", "release_via_facilitator",
     "refund_via_facilitator", "authorize"}

\* C10: every invocation makes one submission (a POST or a broadcast) if it
\* reaches its submission and none otherwise, whether the attempt fails and
\* whether the same request was submitted by the call before.
C10_OneSubmissionPerCall ==
    [][(ncalls' # ncalls /\ last'.op \in SubmittingOps)
       => (nposts' + ntxs') - (nposts + ntxs) = (IF last'.submitted THEN 1 ELSE 0)]_vars

\* The same operation was invoked twice with the same PaymentInfo and
\* amount, and two submissions were made.
C10_Witness ==
    /\ Called
    /\ last.op \in SubmittingOps
    /\ last.repeat
    /\ last.submitted
    /\ ncalls = 2
    /\ nposts + ntxs = 2

---------------------------------------------------------------------------
(* Properties of the transaction dispatcher (Spec) *)

\* The last call was a direct operation whose transaction was mined.
Mined ==
    /\ Called
    /\ last.op \in DirectOps
    /\ last.outcome.some
    /\ last.outcome.v.kind = "receipt"

\* C11: when a direct operation's transaction is mined with a status other
\* than 1, the result has success == False, the transaction id, the
\* receipt's gas used and the error "Transaction reverted"; with status 1 it
\* has success == True, the transaction id, the gas used and no error.
C11_ReceiptDecidesResult ==
    Mined
    => /\ IsNone(last.raised)
       /\ last.result =
            Some(IF last.outcome.v.status = 1
                 THEN [success |-> TRUE,
                       transaction_hash |-> Some(last.outcome.v.tx_hash),
                       gas_used |-> Some(last.outcome.v.gasUsed),
                       error |-> None_]
                 ELSE [success |-> FALSE,
                       transaction_hash |-> Some(last.outcome.v.tx_hash),
                       gas_used |-> Some(last.outcome.v.gasUsed),
                       error |-> Some("Transaction reverted")])

\* release returned a failed result for a transaction mined with status 0.
C11_Witness ==
    /\ Mined
    /\ last.op = "release"
    /\ last.outcome.v.status = 0
    /\ last.result.some
    /\ last.result.v.error = Some("Transaction reverted")

\* C12: an exception at any stage of _send_tx becomes a returned result with
\* success == False and error equal to the exception's message; nothing is
\* raised, and the raw transaction is handed to the node once if the stage
\* is the submission or the wait, and not at all if it is an earlier stage.
C12_SendTxCatchesEveryStage ==
    [][(ncalls' # ncalls /\ last'.op \in DirectOps /\ last'.outcome.some
        /\ last'.outcome.v.kind = "error")
       => /\ IsNone(last'.raised)
          /\ last'.result =
               Some([success |-> FALSE, transaction_hash |-> None_,
                     gas_used |-> None_, error |-> Some(last'.outcome.v.msg)])
          /\ ntxs' - ntxs = (IF Broadcasts(last'.outcome.v.stage) THEN 1 ELSE 0)
          /\ nposts' = nposts]_vars

\* refund_in_escrow returned a failed result after the wait for the receipt
\* raised.
C12_Witness ==
    /\ Called
    /\ last.op = "refund_in_escrow"
    /\ last.outcome.some
    /\ last.outcome.v.kind = "error"
    /\ last.outcome.v.stage = "wait_for_transaction_receipt"
    /\ last.result.some
    /\ last.result.v.error = Some("rpc error")
    /\ ntxs >= 1

---------------------------------------------------------------------------
(* The PaymentInfo is read-only (Spec) *)

\* C20: no operation changes a field of the PaymentInfo it is given,
\* whether it succeeds or fails and whether an amount is passed, and a
\* successful authorize returns that PaymentInfo and its salt.
C20_PaymentInfoNeverMutated ==
    [][/\ info' = info
       /\ (ncalls' # ncalls /\ last'.op = "authorize" /\ last'.result.some
           /\ last'.result.v.success)
          => /\ last'.result.v.payment_info = Some(info)
             /\ last'.result.v.salt = Some(info.salt)]_vars

\* Two operations ran on the PaymentInfo, the last one with an explicit
\* amount below max_amount.
C20_Witness ==
    /\ Called
    /\ ncalls = 2
    /\ last.op \in {"release", "charge", "release_via_facilitator"}
    /\ last.amount = Some(2000000)
    /\ info.max_amount = 5000000

---------------------------------------------------------------------------
(* Properties of construction (SpecSetup) *)

\* The last step was a constructor call that took its contracts from the
\* registry path (no explicit contract set).
ConstructedFromRegistry ==
    /\ last.op = "__init__"
    /\ IsNone(last.args.contracts)

\* C13: constructing a client for a chain id absent from the registry, with
\* no explicit contract set, raises at construction; no client is produced.
C13_UnsupportedChainFailsFast ==
    (ConstructedFromRegistry /\ last.args.chain_id \notin DOMAIN ESCROW_CONTRACTS)
    => IsExc(last.out)

\* C14: from the registry, a registered chain other than 8453 without an
\* operator_address raises; 8453 without one gets the legacy operator; a
\* supplied operator_address is the client's operator on every registered
\* chain, 8453 included.
C14_OperatorResolution ==
    (ConstructedFromRegistry /\ last.args.chain_id \in DOMAIN ESCROW_CONTRACTS)
    => IF last.args.operator_address.some
       THEN /\ ~IsExc(last.out)
            /\ last.out.contracts.operator = last.args.operator_address.v
            /\ last.out.operator_contract =
                 to_checksum_address(last.args.operator_address.v)
       ELSE IF last.args.chain_id = 8453
       THEN /\ ~IsExc(last.out)
            /\ last.out.contracts.operator = BASE_MAINNET_CONTRACTS.operator
       ELSE /\ IsExc(last.out)
            /\ last.out.exc = "ValueError"

\* A client for 8453 was built with a supplied operator, and the caller
\* holds it.
C14_Witness ==
    /\ ConstructedFromRegistry
    /\ last.args.chain_id = 8453
    /\ last.args.operator_address = Some(Addr("0xOperator2"))
    /\ self = last.out
    /\ self.contracts.operator = Addr("0xOperator2")

\* C15: with an explicit contract set the client's contracts are exactly
\* that set, for every chain id and every operator_address, and the
\* constructor does not raise.
C15_ExplicitContractsWin ==
    (last.op = "__init__" /\ last.args.contracts.some)
    => /\ ~IsExc(last.out)
       /\ last.out.contracts = last.args.contracts.v
       /\ last.out.chain_id = last.args.chain_id

\* A client for unregistered chain 10 was built from an explicit contract
\* set while an operator_address was passed too.
C15_Witness ==
    /\ last.op = "__init__"
    /\ last.args.contracts = Some(CustomContracts)
    /\ last.args.chain_id = 10
    /\ last.args.operator_address.some
    /\ self = last.out
    /\ self.contracts.operator = Addr("0xCustomOp")

\* The chain ids in a sequence.
Members(seq) == {seq[i] : i \in DOMAIN seq}

\* C16: get_escrow_contracts returns the registry entry exactly when
\* is_escrow_supported is true, which is exactly when the chain id is in
\* get_supported_escrow_chains(), a list in ascending order; for any other
\* chain id it raises an error that lists every supported chain id with its
\* name.
C16_LookupMatchesRegistry ==
    (last.op = "get_escrow_contracts")
    => /\ last.args.is_supported <=> last.args.chain_id \in Members(last.args.supported)
       /\ \A i, j \in DOMAIN last.args.supported :
             i < j => last.args.supported[i] < last.args.supported[j]
       /\ Members(last.args.supported) = DOMAIN ESCROW_CONTRACTS
       /\ IF last.args.is_supported
          THEN last.out = Ok(ESCROW_CONTRACTS[last.args.chain_id])
          ELSE /\ IsExc(last.out)
               /\ \A c \in Members(last.args.supported) :
                     [cid |-> c, name |-> ESCROW_CHAIN_NAMES[c]]
                        \in Members(last.out.msg.supported)

\* The lookup of chain 999 raised.
C16_Witness ==
    /\ last.op = "get_escrow_contracts"
    /\ last.args.chain_id = 999
    /\ ~last.args.is_supported
    /\ IsExc(last.out)
    /\ Len(last.out.msg.supported) = 9

\* C17: a PaymentInfo constructed without a fee_receiver has fee_receiver
\* equal to its operator; one constructed with a non-empty fee_receiver
\* keeps it.
C17_FeeReceiverDefault ==
    (last.op = "PaymentInfo")
    => /\ last.out.fee_receiver =
            (IF last.args.fee_receiver = EmptyStr
             THEN last.args.operator ELSE last.args.fee_receiver)
       /\ last.out.operator = last.args.operator
       /\ info = last.out

\* A PaymentInfo was constructed with a fee_receiver other than its
\* operator.
C17_Witness ==
    /\ last.op = "PaymentInfo"
    /\ last.args.fee_receiver = Addr("0xFeeRecv")
    /\ info.fee_receiver = Addr("0xFeeRecv")
    /\ info.operator # info.fee_receiver

\* C18: build_payment_info with tier T returns the three expiries at T's
\* fixed distances from the clock reading.
C18_TierTimings ==
    (last.op = "build_payment_info")
    => <<last.out.pre_approval_expiry - last.args.now,
         last.out.authorization_expiry - last.args.now,
         last.out.refund_expiry - last.args.now>>
       = (CASE last.args.tier = "micro" -> <<3600, 7200, 86400>>
            [] last.args.tier = "standard" -> <<7200, 86400, 604800>>
            [] last.args.tier = "premium" -> <<14400, 172800, 1209600>>
            [] last.args.tier = "enterprise" -> <<86400, 604800, 2592000>>)

\* A STANDARD PaymentInfo was built at a clock reading of 1700000000.
C18_Witness ==
    /\ last.op = "build_payment_info"
    /\ last.args.tier = "standard"
    /\ last.args.now = 1700000000
    /\ info.pre_approval_expiry = 1700007200

\* C19: every PaymentInfo produced by build_payment_info satisfies
\* pre_approval_expiry <= authorization_expiry <= refund_expiry.
C19_ExpiriesOrdered ==
    (last.op = "build_payment_info")
    => /\ last.out.pre_approval_expiry <= last.out.authorization_expiry
       /\ last.out.authorization_expiry <= last.out.refund_expiry

\* An ENTERPRISE PaymentInfo was built by a client of another chain.
C19_Witness ==
    /\ last.op = "build_payment_info"
    /\ last.args.tier = "enterprise"
    /\ self.chain_id # 8453
    /\ info = last.out
    /\ info.refund_expiry - info.pre_approval_expiry = 2505600

---------------------------------------------------------------------------
(* Properties of the signed authorization and of amounts (Spec) *)

\* The last call was an authorize that got past the nonce computation.
Authorized ==
    /\ Called
    /\ last.op = "authorize"
    /\ AcceptedSalt(last.info.salt)

\* C23: for every max_amount, values above DEPOSIT_LIMIT_USDC included,
\* authorize signs and submits a request whose value and maxAmount are
\* max_amount unchanged; it never stops before the submission.
C23_NoLocalDepositLimit ==
    Authorized
    => /\ IsNone(last.raised)
       /\ last.submitted
       /\ last.signed.v.message.value = last.info.max_amount
       /\ int_str(last.request.v.payload.authorization.value) = last.info.max_amount
       /\ int_str(last.request.v.payload.paymentInfo.maxAmount) = last.info.max_amount
       /\ int_str(last.request.v.paymentRequirements.maxAmountRequired) = last.info.max_amount

\* An authorize for 150000000, above the deposit limit, was submitted.
C23_Witness ==
    /\ Authorized
    /\ last.info.max_amount > DEPOSIT_LIMIT_USDC
    /\ last.submitted
    /\ last.request.v.payload.authorization.value = <<"1", "5", "0", "0", "0", "0", "0", "0", "0">>

\* C24: the transfer authorization authorize signs and sends has
\* from = payer, to = the token collector of the resolved contracts,
\* value = max_amount, validAfter = 0, validBefore = pre_approval_expiry and
\* nonce = _compute_nonce(info); the signed message and the authorization
\* in the payload carry the same six values.
C24_AuthorizationFields ==
    Authorized
    => LET m == last.signed.v.message
           a == last.request.v.payload.authorization
       IN  /\ m.from = to_checksum_address(self.payer)
           /\ m.to = to_checksum_address(self.contracts.token_collector)
           /\ m.value = last.info.max_amount
           /\ m.validAfter = 0
           /\ m.validBefore = last.info.pre_approval_expiry
           /\ hex0x(m.nonce) = _compute_nonce(self, last.info).val
           /\ to_checksum_address(a.from) = m.from
           /\ to_checksum_address(a.to) = m.to
           /\ int_str(a.value) = m.value
           /\ int_str(a.validAfter) = m.validAfter
           /\ int_str(a.validBefore) = m.validBefore
           /\ bytes_fromhex(a.nonce) = m.nonce

\* An authorize on Celo signed a transfer to that chain's token collector.
C24_Witness ==
    /\ Authorized
    /\ self.chain_id = 42220
    /\ last.signed.some
    /\ last.signed.v.message.to = ESCROW_CONTRACTS[42220].token_collector
    /\ last.signed.v.message.validBefore = 4600

\* The amount a request carries: the second argument of a contract call,
\* or the amount of a facilitator payload.
RequestAmount(l) ==
    IF l.op \in DirectOps THEN l.request.v.call.args[2]
    ELSE int_str(l.request.v.payload.amount)

\* The direct operation and the facilitator operation of one kind.
SamePairs ==
    {<<"release", "release_via_facilitator">>, <<"release_via_facilitator", "release">>,
     <<"refund_in_escrow", "refund_via_facilitator">>,
     <<"refund_via_facilitator", "refund_in_escrow">>}

\* C27: for every PaymentInfo and every amount argument (absent, 0 or
\* positive) the amount release passes to the contract equals the amount
\* release_via_facilitator puts in its request, and likewise for
\* refund_in_escrow and refund_via_facilitator.
C27_SameAmountOnBothPaths ==
    [][(/\ ncalls' # ncalls
        /\ <<last.op, last'.op>> \in SamePairs
        /\ last.amount = last'.amount
        /\ last.request.some /\ last'.request.some)
       => RequestAmount(last) = RequestAmount(last')]_vars

\* C28: every result with success == False returned by one of the seven
\* result-returning operations carries an error string, for every
\* facilitator response shape and every transport or chain failure.
C28_FailureIsExplained ==
    (Called /\ last.op # "query_escrow_state" /\ last.result.some
     /\ ~last.result.v.success)
    => last.result.v.error.some

\* The operations that sign a transfer authorization.
SigningOps == {"authorize", "charge"}

\* C29: the authorizations signed by charge (for any amount) and by
\* authorize for one PaymentInfo carry the same nonce, recipient and
\* validity window [0, pre_approval_expiry], and differ in value at most.
C29_OneNonceForChargeAndAuthorize ==
    [][(/\ ncalls' # ncalls
        /\ last.op \in SigningOps /\ last'.op \in SigningOps
        /\ last.signed.some /\ last'.signed.some)
       => LET m == last.signed.v.message
              n == last'.signed.v.message
          IN  /\ n.nonce = m.nonce
              /\ n.to = m.to
              /\ n.from = m.from
              /\ n.validAfter = 0 /\ m.validAfter = 0
              /\ n.validBefore = info.pre_approval_expiry
              /\ m.validBefore = info.pre_approval_expiry]_vars

\* A charge for part of max_amount signed its authorization as the second
\* call on the PaymentInfo.
C29_Witness ==
    /\ Called
    /\ ncalls = 2
    /\ last.op = "charge"
    /\ last.amount = Some(2000000)
    /\ last.signed.some
    /\ last.signed.v.message.value = 2000000
    /\ last.signed.v.message.value # last.info.max_amount

---------------------------------------------------------------------------
(* The PaymentInfo wire format (SpecNonce) *)

\* The 12 fields of the wire format, in order, with their widths.
WireFormat ==
    <<Leaf("operator", "address"), Leaf("payer", "address"),
      Leaf("receiver", "address"), Leaf("token", "address"),
      Leaf("maxAmount", "uint120"), Leaf("preApprovalExpiry", "uint48"),
      Leaf("authorizationExpiry", "uint48"), Leaf("refundExpiry", "uint48"),
      Leaf("minFeeBps", "uint16"), Leaf("maxFeeBps", "uint16"),
      Leaf("feeReceiver", "address"), Leaf("salt", "uint256")>>

\* The value a caller's PaymentInfo and client give the named wire field,
\* the salt aside.
WireValue(name, client, pi) ==
    CASE name = "operator" -> to_checksum_address(pi.operator)
      [] name = "payer" -> to_checksum_address(client.payer)
      [] name = "receiver" -> to_checksum_address(pi.receiver)
      [] name = "token" -> to_checksum_address(pi.token)
      [] name = "maxAmount" -> pi.max_amount
      [] name = "preApprovalExpiry" -> pi.pre_approval_expiry
      [] name = "authorizationExpiry" -> pi.authorization_expiry
      [] name = "refundExpiry" -> pi.refund_expiry
      [] name = "minFeeBps" -> pi.min_fee_bps
      [] name = "maxFeeBps" -> pi.max_fee_bps
      [] name = "feeReceiver" -> to_checksum_address(pi.fee_receiver)

\* The tuple type string inside a nonce: the second type of the inner
\* encoding.
TypeStringOf(nonce) == bytes_fromhex(nonce).keccak.values[3].keccak.types[2]

\* C25: the 12 fields in the order (operator, payer, receiver, token,
\* maxAmount, preApprovalExpiry, authorizationExpiry, refundExpiry,
\* minFeeBps, maxFeeBps, feeReceiver, salt) with widths uint120, uint48 and
\* uint16 are the same in the type string every nonce is hashed with, in
\* every tuple _build_tuple returns, and in the paymentInfo parameter of the
\* four OPERATOR_ABI functions.
C25_OneWireFormat ==
    /\ \A f \in {"release", "refundInEscrow", "charge", "refundPostEscrow"} :
          /\ OPERATOR_ABI[f][1].name = "paymentInfo"
          /\ OPERATOR_ABI[f][1].components = WireFormat
    /\ \A i \in NonceCalls :
          ~IsExc(trace[i].out)
          => TypeStringOf(trace[i].out.val) = [k \in DOMAIN WireFormat |-> WireFormat[k].type]
    /\ \A j \in TupleCalls :
          ~IsExc(trace[j].out)
          => /\ Len(trace[j].out.val) = Len(WireFormat)
             /\ \A k \in 1..11 :
                   trace[j].out.val[k] =
                     WireValue(WireFormat[k].name, trace[j].client, trace[j].info)
             /\ WireFormat[12].name = "salt"
             /\ trace[j].out.val[12] \in Nat

\* A nonce was computed and a tuple was built for a PaymentInfo whose fee
\* receiver differs from its operator.
C25_Witness ==
    /\ Len(trace) = 2
    /\ trace[1].fn = "_compute_nonce" /\ ~IsExc(trace[1].out)
    /\ trace[2].fn = "_build_tuple" /\ ~IsExc(trace[2].out)
    /\ trace[2].info.fee_receiver # trace[2].info.operator
    /\ trace[2].out.val[11] = to_checksum_address(trace[2].info.fee_receiver)

---------------------------------------------------------------------------
(* Properties of the escrow.py predicates (SpecEscrow) *)

\* The instant an ISO text denotes, in seconds since the epoch.
InstantOf(text) == text.wall - (IF text.zone = "+00:01" THEN 60 ELSE 0)

\* The logged invocations of one predicate.
CallsOf(fn) == {i \in DOMAIN trace : trace[i].fn = fn}

\* The record sets a non-zero min_hold_time release condition.
HoldSet ==
    /\ payment.release_conditions.some
    /\ payment.release_conditions.v.min_hold_time.some
    /\ payment.release_conditions.v.min_hold_time.v # 0

\* C26: can_release_escrow returns True exactly when the status is HELD,
\* expires_at is not earlier than the current time and, if a non-zero
\* min_hold_time is set, the current time is at least created_at +
\* min_hold_time; in every other case it returns False.
C26_ReleasableExactlyWhen ==
    \A i \in CallsOf("can_release_escrow") :
        trace[i].out =
          (/\ payment.status = "held"
           /\ InstantOf(payment.expires_at) >= trace[i].reading1
           /\ HoldSet =>
                trace[i].reading2 >=
                  InstantOf(payment.created_at) + payment.release_conditions.v.min_hold_time.v)

\* A held record with a 120 second hold time, expiring at second 120, was
\* reported releasable at second 120.
C26_Witness ==
    /\ payment.status = "held"
    /\ HoldSet
    /\ payment.release_conditions.v.min_hold_time.v = 120
    /\ \E i \in CallsOf("can_release_escrow") :
          trace[i].out /\ trace[i].reading1 = 120

\* C30: a record reported releasable is reported refundable; a record whose
\* status is RELEASED, REFUNDED, DISPUTED or EXPIRED is reported neither;
\* a HELD record already reported expired is still reported refundable and
\* is not reported releasable.
C30_ReleasableImpliesRefundable ==
    /\ \A i \in CallsOf("can_release_escrow") : \A j \in CallsOf("can_refund_escrow") :
          trace[i].out => trace[j].out
    /\ payment.status \in {"released", "refunded", "disputed", "expired"}
       => \A i \in CallsOf("can_release_escrow") \cup CallsOf("can_refund_escrow") :
             ~trace[i].out
    /\ payment.status = "held"
       => \A i \in CallsOf("is_escrow_expired") : \A j \in DOMAIN trace :
             (trace[i].out /\ i < j)
             => /\ trace[j].fn = "can_refund_escrow" => trace[j].out
                /\ trace[j].fn = "can_release_escrow" => ~trace[j].out

\* A held record was reported expired and then refundable.
C30_Witness ==
    /\ payment.status = "held"
    /\ Len(trace) = 2
    /\ trace[1].fn = "is_escrow_expired" /\ trace[1].out
    /\ trace[2].fn = "can_refund_escrow" /\ trace[2].out

---------------------------------------------------------------------------
(* Overlapping direct operations (SpecDispatch) *)

\* C21: the dispatcher does not serialize direct operations from one payer
\* key: an invocation may read the account's transaction count while
\* another stands between its own read and its submission, and any two
\* invocations that have both read the count and not yet submitted hold
\* the same count for their transactions.
C21_OverlappingReadsShareCount ==
    \A t, u \in Threads :
        /\ (threads[t].pc \in BeforeSubmission /\ threads[u].pc \in BeforeSubmission)
           => threads[t].nonce = threads[u].nonce
        /\ (t # u /\ threads[t].pc \in BeforeSubmission /\ threads[u].pc = "gas_read")
           => ENABLED ReadCount(u)

\* Both invocations have signed their transactions, with the same count,
\* and neither has submitted.
C21_Witness ==
    /\ threads["t1"].pc = "signed"
    /\ threads["t2"].pc = "signed"
    /\ threads["t1"].nonce = threads["t2"].nonce
    /\ ntxs = 0

====
